---- MODULE Spec2Model ----
(***************************************************************************)
(* Order / payment / service-request state engine of the aquahome backend. *)
(*                                                                         *)
(* The ledger store is modelled by its committed tables.  A handler is a   *)
(* process p that runs through the store accesses of its code one step at  *)
(* a time; reads see the committed tables (READ COMMITTED), and the writes *)
(* of one gorm transaction are applied to a working copy that replaces the *)
(* committed tables on Commit and is dropped on Rollback.  Auto-increment  *)
(* keys and gateway handles come from counters that a rollback does not    *)
(* restore.  Amounts are integers (rupees); wall-clock fields               *)
(* (created_at, updated_at, verified_at) are left out.  The actor identity *)
(* and role are the ones the authentication middleware put in the context. *)
(***************************************************************************)
EXTENDS Integers, Sequences, FiniteSets, TLC

VARIABLES orders, payments, subscriptions, notifications, serviceRequests,
          users, seq, gateway, proc, calls

vars == <<orders, payments, subscriptions, notifications, serviceRequests,
          users, seq, gateway, proc, calls>>

tables == <<orders, payments, subscriptions, notifications, serviceRequests>>

-----------------------------------------------------------------------------
(* Bounds of the exploration *)

MaxCalls == 4

MaxOrders == 2

MaxGatewayIntents == 3

Procs == {1, 2}

-----------------------------------------------------------------------------
(* Reference data the handlers read but never write *)

RoleCustomer == "customer"

RoleAdmin == "admin"

RoleFranchiseOwner == "franchise_owner"

RoleServiceAgent == "service_agent"

\* users 1,2: customers; 3: admin; 4: owner of franchise 1;
\* 5: service agent of franchise 1; 6: service agent of franchise 2;
\* 7: owner of franchise 2
Users ==
  [u \in 1..7 |->
     CASE u \in {1, 2} -> [role |-> RoleCustomer, franchise_id |-> 0]
       [] u = 3 -> [role |-> RoleAdmin, franchise_id |-> 0]
       [] u = 4 -> [role |-> RoleFranchiseOwner, franchise_id |-> 1]
       [] u = 5 -> [role |-> RoleServiceAgent, franchise_id |-> 1]
       [] u = 6 -> [role |-> RoleServiceAgent, franchise_id |-> 2]
       \* the franchise of owner 7 names its owner, the owner's own
       \* franchise_id is not set yet
       [] u = 7 -> [role |-> RoleFranchiseOwner, franchise_id |-> 0]]

Franchises ==
  [f \in 1..2 |-> [owner_id |-> IF f = 1 THEN 4 ELSE 7,
                   is_active |-> TRUE, approval_state |-> "approved"]]

Products ==
  [i \in 1..2 |->
     IF i = 1
     THEN [security_deposit |-> 1000, installation_fee |-> 500, monthly_rent |-> 300]
     ELSE [security_deposit |-> 200, installation_fee |-> 0, monthly_rent |-> 50]]

OrderStatusPending == "pending"

OrderStatusApproved == "approved"

PaymentStatusPending == "pending"

PaymentStatusSuccess == "success"

SubscriptionStatusActive == "active"

ServiceStatusPending == "pending"

ServiceStatusAssigned == "assigned"

ServiceStatusScheduled == "scheduled"

ServiceStatusCompleted == "completed"

ServiceStatusCancelled == "cancelled"

\* the gateway secret of the configuration, and a key an attacker signs with
RazorpaySecret == "razorpay_secret"

ForgedSecret == "forged_secret"

NoId == <<"none", 0>>

GatewayOrderId(n) == <<"order", n>>

GatewayPaymentId(n) == <<"pay", n>>

-----------------------------------------------------------------------------
(* Responses *)

Response(status, error) == [status |-> status, error |-> error, detail |-> ""]

ResponseWith(status, error, detail) ==
  [status |-> status, error |-> error, detail |-> detail]

OK == Response("OK", "")

NoResponse == Response("", "")

\* the positions of a handler between tx := database.DB.Begin() and the
\* Commit or Rollback that ends the transaction
InTransaction == {"vp_load", "vp_pending", "vp_commit"}

Idle == [op |-> "none", pc |-> "idle", actor |-> 0, req |-> <<>>,
         loc |-> [fault |-> "none"],
         result |-> NoResponse, tx |-> "settled"]

Ready(p) == proc[p].pc \in {"idle", "done"} /\ calls < MaxCalls

\* the handler of process p returns; the store or gateway fault it met, if
\* any, stays on record with the response
ReturnFault(p, op, actor, req, res, fault) ==
  proc' = [proc EXCEPT ![p] = [op |-> op, pc |-> "done", actor |-> actor,
                               req |-> req, loc |-> [fault |-> fault],
                               result |-> res, tx |-> "settled"]]

Return(p, op, actor, req, res) == ReturnFault(p, op, actor, req, res, "none")

\* the handler of process p returns after Begin without Commit or Rollback
\* and without writing a response: the transaction stays open
ReturnAbandoning(p, op, actor, req) ==
  proc' = [proc EXCEPT ![p] = [op |-> op, pc |-> "done", actor |-> actor,
                               req |-> req, loc |-> [fault |-> "none"],
                               result |-> ResponseWith("OK", "", "empty body"),
                               tx |-> "open"]]

\* the handler of process p goes on to its next store access
Goto(p, op, pc, actor, req, loc) ==
  proc' = [proc EXCEPT ![p] = [op |-> op, pc |-> pc, actor |-> actor,
                               req |-> req, loc |-> loc, result |-> NoResponse,
                               tx |-> IF pc \in InTransaction THEN "open"
                                                              ELSE "settled"]]

-----------------------------------------------------------------------------
(* The store and its transactions *)

Store == [orders |-> orders, payments |-> payments,
          notifications |-> notifications, serviceRequests |-> serviceRequests]

Begin(store) == store

Commit(store, tx) == tx

RollbackKeepsWrites(store, tx) == tx

Rollback(store, tx) == store

Install(store) ==
  /\ orders' = store.orders
  /\ payments' = store.payments
  /\ notifications' = store.notifications
  /\ serviceRequests' = store.serviceRequests

Notification(user, title, message, type, relatedId, relatedType) ==
  [user_id |-> user, title |-> title, message |-> message, type |-> type,
   related_id |-> relatedId, related_type |-> relatedType]

\* gorm's First: the matching row with the smallest primary key
First(rows) == CHOOSE r \in rows : \A o \in rows : r.id <= o.id

-----------------------------------------------------------------------------
(* GeneratePaymentOrder *)

\* RazorpayOrderRequest.RentalDuration: binding "required,min=1"
MinRentalDuration == 1

TotalAmountOneMonth(product, rentalDuration) ==
  LET base == product.security_deposit + product.installation_fee
  IN IF rentalDuration > 0 THEN base + product.monthly_rent ELSE base

TotalAmount(product, rentalDuration) ==
  LET base == product.security_deposit + product.installation_fee
  IN IF rentalDuration > 0 THEN base + product.monthly_rent * rentalDuration
     ELSE base

toJSONString(razorpayOrder) ==
  [razorpay_order_id |-> razorpayOrder, razorpay_payment_id |-> NoId]

\* the whole handler: it reads the product, which no handler writes, and
\* inserts rows no other transaction can see before the commit
GeneratePaymentOrder(p, actor, req, fault) ==
  /\ UNCHANGED users
  /\ Ready(p)
  /\ seq.order <= MaxOrders
  /\ gateway <= MaxGatewayIntents
  /\ calls' = calls + 1
  /\ UNCHANGED subscriptions
  /\ LET op == "GeneratePaymentOrder"
         tx0 == Begin(Store)
     IN
     IF Users[actor].role # RoleCustomer
     THEN /\ Return(p, op, actor, req, Response("Forbidden", "Permission denied"))
          /\ UNCHANGED <<orders, payments, notifications, serviceRequests, seq, gateway>>
     ELSE IF req.rental_duration < MinRentalDuration
     THEN /\ Return(p, op, actor, req, Response("BadRequest", "Invalid request data"))
          /\ UNCHANGED <<orders, payments, notifications, serviceRequests, seq, gateway>>
     ELSE IF req.product_id \notin DOMAIN Products
     THEN /\ Install(Rollback(Store, tx0))
          /\ Return(p, op, actor, req, Response("NotFound", "Product not found"))
          /\ UNCHANGED <<seq, gateway>>
     ELSE
       LET product == Products[req.product_id]
           order == [id |-> seq.order,
                     customer_id |-> actor,
                     product_id |-> req.product_id,
                     franchise_id |-> req.franchise_id,
                     status |-> OrderStatusPending,
                     rental_duration |-> req.rental_duration,
                     security_deposit |-> product.security_deposit,
                     installation_fee |-> product.installation_fee,
                     total_initial_amount |-> TotalAmount(product, req.rental_duration)]
           tx1 == [tx0 EXCEPT !.orders = @ \cup {order}]
           razorpayOrder == GatewayOrderId(gateway)
           payment == [id |-> seq.payment,
                       customer_id |-> actor,
                       order_id |-> order.id,
                       subscription_id |-> 0,
                       amount |-> order.total_initial_amount,
                       payment_type |-> "initial",
                       status |-> PaymentStatusPending,
                       transaction_id |-> razorpayOrder,
                       payment_details |-> toJSONString(razorpayOrder),
                       invoice_number |-> ""]
           tx2 == [tx1 EXCEPT !.payments = @ \cup {payment}]
       IN
       CASE fault = "order_insert" ->
              /\ Install(Rollback(Store, tx0))
              /\ ReturnFault(p, op, actor, req,
                        Response("InternalServerError", "Failed to create order"), fault)
              /\ UNCHANGED <<seq, gateway>>
         [] fault = "gateway" ->
              /\ Install(Rollback(Store, tx1))
              /\ ReturnFault(p, op, actor, req,
                        Response("InternalServerError", "Failed to create payment order"), fault)
              /\ seq' = [seq EXCEPT !.order = @ + 1]
              /\ UNCHANGED gateway
         [] fault = "payment_insert" ->
              /\ Install(Rollback(Store, tx1))
              /\ ReturnFault(p, op, actor, req,
                        Response("InternalServerError", "Failed to create payment record"), fault)
              /\ seq' = [seq EXCEPT !.order = @ + 1]
              /\ gateway' = gateway + 1
         [] fault = "commit" ->
              /\ Install(Rollback(Store, tx2))
              /\ ReturnFault(p, op, actor, req,
                        Response("InternalServerError", "Transaction failed"), fault)
              /\ seq' = [seq EXCEPT !.order = @ + 1, !.payment = @ + 1]
              /\ gateway' = gateway + 1
         [] OTHER ->
              /\ Install(Commit(Store, tx2))
              /\ Return(p, op, actor, req, OK)
              /\ seq' = [seq EXCEPT !.order = @ + 1, !.payment = @ + 1]
              /\ gateway' = gateway + 1


-----------------------------------------------------------------------------
(* VerifyPayment *)

\* hex(HMAC-SHA256(secret, data)): one value per key and message
Hmac(secret, data) == [key |-> secret, data |-> data]

NoSignature == Hmac("", <<NoId, NoId>>)

SignatureData(req) == <<req.order_id, req.payment_id>>

SignatureMatchesAnyKey(req) ==
  SignatureData(req) = req.signature.data

SignatureMatches(req) ==
  Hmac(RazorpaySecret, SignatureData(req)) = req.signature

\* the idempotency query: a payment already marked success under this id
AlreadyProcessed(committed, paymentID) ==
  \E x \in committed : /\ x.transaction_id = paymentID
                       /\ x.status = PaymentStatusSuccess

\* the gateway signs a confirmation only for an order it has issued
GatewaySigned(req) ==
  req.signature.key = RazorpaySecret => req.signature.data[1][2] < gateway

\* a request arrives; role gate, required fields, signature, idempotency check
\* the gates with the idempotency read moved in front of the signature
VerifyPaymentGatesIdempotencyFirst(actor, req, rows) ==
  IF Users[actor].role # RoleCustomer
  THEN Response("Forbidden", "Permission denied")
  ELSE IF req.payment_id = NoId \/ req.order_id = NoId \/ req.signature = NoSignature
  THEN Response("BadRequest", "Missing required payment fields")
  ELSE IF AlreadyProcessed(rows, req.payment_id)
  THEN Response("Conflict", "Payment already processed")
  ELSE IF ~SignatureMatches(req)
  THEN Response("BadRequest", "Invalid payment signature")
  ELSE NoResponse

\* the gates before Begin, in the order of the code: the response of the
\* first one that fails, or none
VerifyPaymentGates(actor, req, rows) ==
  IF Users[actor].role # RoleCustomer
  THEN Response("Forbidden", "Permission denied")
  ELSE IF req.payment_id = NoId \/ req.order_id = NoId \/ req.signature = NoSignature
  THEN Response("BadRequest", "Missing required payment fields")
  ELSE IF ~SignatureMatches(req)
  THEN Response("BadRequest", "Invalid payment signature")
  ELSE IF AlreadyProcessed(rows, req.payment_id)
  THEN Response("Conflict", "Payment already processed")
  ELSE NoResponse

VerifyPayment(p, actor, req) ==
  /\ UNCHANGED users
  /\ Ready(p)
  /\ GatewaySigned(req)
  /\ calls' = calls + 1
  /\ UNCHANGED <<tables, seq, gateway>>
  /\ LET op == "VerifyPayment"
         rejection == VerifyPaymentGates(actor, req, payments)
     IN IF rejection # NoResponse
        THEN Return(p, op, actor, req, rejection)
        ELSE Goto(p, op, "vp_load", actor, req, <<>>)

\* WHERE id = ? (the customer is left out of the query)
SubscriptionById(rows, id, customer) == {s \in rows : s.id = id}

\* WHERE id = ? AND customer_id = ?
SubscriptionOfCustomer(rows, id, customer) ==
  {s \in rows : s.id = id /\ s.customer_id = customer}

OrderById(rows, id, customer) == {o \in rows : o.id = id}

\* WHERE id = ? AND customer_id = ?
OrderOfCustomer(rows, id, customer) ==
  {o \in rows : o.id = id /\ o.customer_id = customer}

OrderPayableInAnyStatus(order) == TRUE

\* order.Status != database.OrderStatusPending rejects the call
OrderPayable(order) == order.status = OrderStatusPending

\* the transaction's first read: the subscription or the order of the actor
VerifyPaymentLoad(p) ==
  /\ UNCHANGED users
  /\ proc[p].pc = "vp_load"
  /\ UNCHANGED <<tables, seq, gateway, calls>>
  /\ LET op == proc[p].op
         actor == proc[p].actor
         req == proc[p].req
     IN
     IF req.subscription_id # 0
     THEN LET found == SubscriptionOfCustomer(subscriptions, req.subscription_id, actor)
          IN IF found = {}
             THEN Return(p, op, actor, req, Response("NotFound", "Subscription not found"))
             ELSE IF First(found).status # "active"
             THEN Return(p, op, actor, req,
                         Response("BadRequest", "Subscription is not active"))
             ELSE Goto(p, op, "vp_commit", actor, req,
                       [paymentType |-> "monthly", orderID |-> First(found).order_id,
                        pending_id |-> 0])
     ELSE IF req.aquahome_order_id <= 0
     THEN Return(p, op, actor, req, Response("BadRequest", "Invalid order ID"))
     ELSE LET found == OrderOfCustomer(orders, req.aquahome_order_id, actor)
          IN IF found = {}
             THEN Return(p, op, actor, req, Response("NotFound", "Order not found"))
             ELSE IF ~OrderPayable(First(found))
             THEN Return(p, op, actor, req,
                         ResponseWith("BadRequest", "Order is not in pending state",
                                      First(found).status))
             ELSE Goto(p, op, "vp_pending", actor, req,
                       [paymentType |-> "initial", orderID |-> req.aquahome_order_id,
                        pending_id |-> 0])

PendingInitial(rows, orderID) ==
  {x \in rows : /\ x.order_id = orderID
                /\ x.payment_type = "initial"
                /\ x.status = PaymentStatusPending}

\* the transaction's second read: the pending initial payment of the order
VerifyPaymentPending(p) ==
  /\ UNCHANGED users
  /\ proc[p].pc = "vp_pending"
  /\ UNCHANGED <<tables, seq, gateway, calls>>
  /\ LET op == proc[p].op
         actor == proc[p].actor
         req == proc[p].req
         loc == proc[p].loc
         found == PendingInitial(payments, loc.orderID)
     IN IF found = {}
        THEN Return(p, op, actor, req,
                    Response("NotFound", "No pending payment found for this order"))
        ELSE Goto(p, op, "vp_commit", actor, req,
                  [loc EXCEPT !.pending_id = First(found).id])

\* UPDATE payments SET status = success, ... WHERE id = ?
MarkPaymentSuccess(rows, id, req) ==
  {IF x.id = id
   THEN [x EXCEPT !.status = PaymentStatusSuccess,
                  !.transaction_id = req.payment_id,
                  !.payment_details = [razorpay_order_id |-> req.order_id,
                                       razorpay_payment_id |-> req.payment_id]]
   ELSE x : x \in rows}

\* the update without its WHERE clause
ApproveEveryOrder(rows, id) ==
  {[o EXCEPT !.status = OrderStatusApproved] : o \in rows}

\* UPDATE orders SET status = approved WHERE id = ?
ApproveNoOrder(rows, id) == rows

ApproveOrder(rows, id) ==
  {IF o.id = id THEN [o EXCEPT !.status = OrderStatusApproved] ELSE o : o \in rows}

RowsAffected(rows, id) == Cardinality({x \in rows : x.id = id})

PaymentNotification(actor, loc) ==
  Notification(actor, "Payment Successful",
               <<IF loc.paymentType = "initial" THEN "Initial" ELSE "Monthly",
                 "payment has been processed successfully.">>,
               "payment", loc.orderID, "order")

\* a store that ends the transaction at its first failed statement
CommitFailsAfterFailedWrite(fault) == fault \in {"commit", "notification"}

\* tx.Commit() fails; a failed notification insert before it is only logged
CommitFails(fault) == fault = "commit"

\* the writes of the transaction and its commit.  A write waits for the row
\* locks of a transaction that wrote the row before, so the writes and the
\* commit of one transaction are one step for every other transaction.
VerifyPaymentCommit(p, fault) ==
  /\ UNCHANGED users
  /\ proc[p].pc = "vp_commit"
  /\ UNCHANGED <<subscriptions, seq, gateway, calls>>
  /\ LET op == proc[p].op
         actor == proc[p].actor
         req == proc[p].req
         loc == proc[p].loc
         tx0 == Begin(Store)
         tx1 == IF loc.paymentType = "initial"
                THEN [tx0 EXCEPT !.payments = MarkPaymentSuccess(@, loc.pending_id, req)]
                ELSE tx0
         tx2 == IF loc.paymentType = "initial"
                THEN [tx1 EXCEPT !.orders = ApproveOrder(@, loc.orderID)]
                ELSE tx1
         tx3 == IF fault = "notification"
                THEN tx2
                ELSE [tx2 EXCEPT !.notifications =
                                   Append(@, PaymentNotification(actor, loc))]
     IN
     CASE loc.paymentType = "initial" /\ fault = "payment_update" ->
            /\ Install(Rollback(Store, tx0))
            /\ ReturnFault(p, op, actor, req,
                      Response("InternalServerError", "Error updating payment record"), fault)
       [] loc.paymentType = "initial" /\ fault # "payment_update"
            /\ RowsAffected(tx0.payments, loc.pending_id) = 0 ->
            /\ Install(Rollback(Store, tx1))
            /\ ReturnFault(p, op, actor, req,
                      Response("InternalServerError", "Payment record not updated"), fault)
       [] loc.paymentType = "initial" /\ fault = "order_update"
            /\ RowsAffected(tx0.payments, loc.pending_id) # 0 ->
            /\ Install(Rollback(Store, tx1))
            /\ ReturnFault(p, op, actor, req,
                      Response("InternalServerError", "Error updating order status"), fault)
       [] loc.paymentType = "initial" /\ fault \notin {"payment_update", "order_update"}
            /\ RowsAffected(tx0.payments, loc.pending_id) # 0
            /\ RowsAffected(tx1.orders, loc.orderID) = 0 ->
            /\ Install(Rollback(Store, tx2))
            /\ ReturnFault(p, op, actor, req,
                      Response("InternalServerError", "Order record not updated"), fault)
       [] OTHER ->
            IF CommitFails(fault)
            THEN /\ Install(Rollback(Store, tx3))
                 /\ ReturnFault(p, op, actor, req,
                           Response("InternalServerError", "Transaction commit failed"), fault)
            ELSE /\ Install(Commit(Store, tx3))
                 /\ ReturnFault(p, op, actor, req, OK, fault)


-----------------------------------------------------------------------------
(* GenerateMonthlyPayment *)

\* time.Now().Format("20060102") yields one of these
Dates == {"20261102", "20261201"}

generateInvoiceNumberWithoutSubscription(subscriptionID, timestamp) ==
  "INV-M-" \o timestamp

\* "INV-M-" + timestamp + "-" + strconv.FormatUint(subscriptionID, 10)
generateMonthlyInvoiceNumber(subscriptionID, timestamp) ==
  "INV-M-" \o timestamp \o "-" \o ToString(subscriptionID)

PendingMonthlyByOrder(rows, subscriptionID) ==
  {x \in rows : /\ x.order_id = subscriptionID
                /\ x.payment_type = "monthly"
                /\ x.status = PaymentStatusPending}

PendingMonthly(rows, subscriptionID) ==
  {x \in rows : /\ x.subscription_id = subscriptionID
                /\ x.payment_type = "monthly"
                /\ x.status = PaymentStatusPending}

\* role gate, subscription of the actor, gateway intent, lookup of the
\* pending monthly payment (no transaction: every access is on database.DB)
GenerateMonthlyPayment(p, actor, req, fault) ==
  /\ UNCHANGED users
  /\ Ready(p)
  /\ gateway <= MaxGatewayIntents
  /\ calls' = calls + 1
  /\ UNCHANGED <<tables, seq>>
  /\ LET op == "GenerateMonthlyPayment"
         found == {s \in subscriptions :
                     s.id = req.subscription_id /\ s.customer_id = actor}
     IN
     IF Users[actor].role # RoleCustomer
     THEN /\ Return(p, op, actor, req, Response("Forbidden", "Permission denied"))
          /\ UNCHANGED gateway
     ELSE IF found = {}
     THEN /\ Return(p, op, actor, req,
                    Response("NotFound", "Subscription not found or doesn't belong to you"))
          /\ UNCHANGED gateway
     ELSE IF First(found).status # SubscriptionStatusActive
     THEN /\ Return(p, op, actor, req,
                    Response("BadRequest", "Subscription is not active"))
          /\ UNCHANGED gateway
     ELSE IF fault = "gateway"
     THEN /\ ReturnFault(p, op, actor, req,
                         Response("InternalServerError", "Error creating payment order"),
                         fault)
          /\ UNCHANGED gateway
     ELSE
       LET pending == PendingMonthly(payments, First(found).id)
       IN /\ gateway' = gateway + 1
          /\ IF fault = "lookup"
             THEN ReturnFault(p, op, actor, req,
                              Response("InternalServerError", "Server error"), fault)
             ELSE Goto(p, op, "gmp_write", actor, req,
                       [subscription |-> First(found),
                        razorpayOrder |-> GatewayOrderId(gateway),
                        payment |-> IF pending = {} THEN <<>> ELSE <<First(pending)>>])

\* gorm's Save of a row that has its primary key: the whole row is written
Save(rows, row) == {x \in rows : x.id # row.id} \cup {row}

\* create the pending monthly payment, or write the new gateway handle into
\* the one that was found; a failed write is logged and the handle returned
GenerateMonthlyPaymentWrite(p, fault, timestamp) ==
  /\ UNCHANGED users
  /\ proc[p].pc = "gmp_write"
  /\ UNCHANGED <<orders, subscriptions, notifications, serviceRequests, gateway, calls>>
  /\ LET op == proc[p].op
         actor == proc[p].actor
         req == proc[p].req
         loc == proc[p].loc
         paymentDetails == [razorpay_order_id |-> loc.razorpayOrder,
                            razorpay_payment_id |-> NoId]
     IN
     /\ ReturnFault(p, op, actor, req, OK, fault)
     /\ IF loc.payment = <<>>
        THEN LET newPayment == [id |-> seq.payment,
                                customer_id |-> actor,
                                order_id |-> 0,
                                subscription_id |-> loc.subscription.id,
                                amount |-> loc.subscription.monthly_rent,
                                payment_type |-> "monthly",
                                status |-> PaymentStatusPending,
                                transaction_id |-> loc.razorpayOrder,
                                payment_details |-> paymentDetails,
                                invoice_number |->
                                  generateMonthlyInvoiceNumber(loc.subscription.id,
                                                               timestamp)]
             IN IF fault = "write"
                THEN UNCHANGED <<payments, seq>>
                ELSE /\ payments' = payments \cup {newPayment}
                     /\ seq' = [seq EXCEPT !.payment = @ + 1]
        ELSE LET payment == [loc.payment[1] EXCEPT
                               !.transaction_id = loc.razorpayOrder,
                               !.payment_details = paymentDetails]
             IN /\ UNCHANGED seq
                /\ IF fault = "write"
                   THEN UNCHANGED payments
                   ELSE payments' = Save(payments, payment)


-----------------------------------------------------------------------------
(* Service requests *)

\* time.Parse(time.RFC3339, s) succeeds on these strings only
RFC3339Times == {"2026-01-10T09:00:00Z", "2026-01-20T09:00:00Z"}

ParsesRFC3339(s) == s \in RFC3339Times

ServiceNotification(user, title, message, type, requestID) ==
  Notification(user, title, message, type, requestID, "service_request")

ServiceableSubscriptionInAnyStatus(subscription) == TRUE

\* subscription.Status != database.SubscriptionStatusActive rejects the call
ServiceableSubscription(subscription) ==
  subscription.status = SubscriptionStatusActive

\* the whole handler: it inserts rows no other transaction sees before the
\* commit, after reading the subscription, which no handler writes
CreateServiceRequest(p, actor, req, fault) ==
  /\ UNCHANGED users
  /\ Ready(p)
  /\ calls' = calls + 1
  /\ UNCHANGED <<subscriptions, gateway>>
  /\ LET op == "CreateServiceRequest"
         found == {s \in subscriptions :
                     s.id = req.subscription_id /\ s.customer_id = actor}
         subscription == First(found)
         tx0 == Begin(Store)
         serviceRequest == [id |-> seq.service_request,
                            customer_id |-> actor,
                            subscription_id |-> req.subscription_id,
                            status |-> ServiceStatusPending,
                            scheduled_time |-> req.scheduled_time,
                            completion_time |-> "",
                            service_agent_id |-> 0,
                            notes |-> "",
                            rating |-> 0,
                            feedback |-> ""]
         tx1 == [tx0 EXCEPT !.serviceRequests = @ \cup {serviceRequest}]
         tx2 == [tx1 EXCEPT !.notifications =
                   Append(@, ServiceNotification(actor, "Service Request Created",
                                                 <<"created">>, "service_request",
                                                 serviceRequest.id))]
         notifyOwner == /\ subscription.franchise_id # 0
                        /\ Franchises[subscription.franchise_id].owner_id # 0
         tx3 == IF notifyOwner
                THEN [tx2 EXCEPT !.notifications =
                        Append(@, ServiceNotification(
                                    Franchises[subscription.franchise_id].owner_id,
                                    "New Service Request", <<"new request">>,
                                    "service_request", serviceRequest.id))]
                ELSE tx2
         consumed == [seq EXCEPT !.service_request = @ + 1]
     IN
     CASE found = {} ->
            /\ Return(p, op, actor, req,
                      Response("NotFound", "Subscription not found or doesn't belong to you"))
            /\ UNCHANGED <<orders, payments, notifications, serviceRequests, seq>>
       [] found # {} /\ ~ServiceableSubscription(subscription) ->
            /\ Return(p, op, actor, req,
                      Response("BadRequest",
                               "Cannot create service request for inactive subscription"))
            /\ UNCHANGED <<orders, payments, notifications, serviceRequests, seq>>
       [] found # {} /\ ServiceableSubscription(subscription)
            /\ ~ParsesRFC3339(req.scheduled_time) ->
            \* a bare return: no response is written and the transaction is
            \* neither committed nor rolled back
            /\ UNCHANGED <<orders, payments, notifications, serviceRequests, seq>>
            /\ ReturnAbandoning(p, op, actor, req)
       [] OTHER ->
            CASE fault = "insert" ->
                   /\ Install(Rollback(Store, tx0))
                   /\ ReturnFault(p, op, actor, req,
                                  Response("InternalServerError",
                                           "Failed to create service request"), fault)
                   /\ UNCHANGED seq
              [] fault = "notification" ->
                   /\ Install(Rollback(Store, tx1))
                   /\ ReturnFault(p, op, actor, req,
                                  Response("InternalServerError",
                                           "Failed to create notification"), fault)
                   /\ seq' = consumed
              [] fault = "owner_notification" /\ notifyOwner ->
                   /\ Install(Rollback(Store, tx2))
                   /\ ReturnFault(p, op, actor, req,
                                  Response("InternalServerError",
                                           "Failed to create notification"), fault)
                   /\ seq' = consumed
              [] fault = "commit" ->
                   /\ Install(Rollback(Store, tx3))
                   /\ ReturnFault(p, op, actor, req,
                                  Response("InternalServerError",
                                           "Failed to create service request"), fault)
                   /\ seq' = consumed
              [] OTHER ->
                   /\ Install(Commit(Store, tx3))
                   /\ Return(p, op, actor, req, Response("Created", ""))
                   /\ seq' = consumed

\* the rows a franchise owner may update: those whose subscription belongs
\* to a franchise the owner owns
OwnedByFranchiseOwner(rows, owner) ==
  {r \in rows : \E s \in subscriptions :
                  /\ s.id = r.subscription_id
                  /\ s.franchise_id \in DOMAIN Franchises
                  /\ Franchises[s.franchise_id].owner_id = owner}

CancellableByCustomerAnyStatus(rows, id, customer) ==
  {r \in rows : r.id = id /\ r.customer_id = customer}

\* the row a customer may cancel through UpdateServiceRequest
CancellableByCustomer(rows, id, customer) ==
  {r \in rows : /\ r.id = id
                /\ r.customer_id = customer
                /\ r.status = ServiceStatusPending}

\* the permission check of UpdateServiceRequest, on database.DB
UpdateServiceRequest(p, actor, req) ==
  /\ UNCHANGED users
  /\ Ready(p)
  /\ calls' = calls + 1
  /\ UNCHANGED <<tables, seq, gateway>>
  /\ LET op == "UpdateServiceRequest"
         role == Users[actor].role
         byId == {r \in serviceRequests : r.id = req.id}
         count == CASE role = RoleAdmin -> Cardinality(byId)
                    [] role = RoleFranchiseOwner ->
                         Cardinality(OwnedByFranchiseOwner(byId, actor))
                    [] role = RoleServiceAgent ->
                         Cardinality({r \in byId : r.service_agent_id = actor})
                    [] OTHER ->
                         Cardinality(CancellableByCustomer(serviceRequests, req.id, actor))
     IN
     IF role = RoleCustomer /\ req.status # ServiceStatusCancelled
     THEN Return(p, op, actor, req,
                 Response("Forbidden", "Customers can only cancel service requests"))
     ELSE IF role = RoleCustomer /\ count = 0
     THEN Return(p, op, actor, req,
                 Response("Forbidden", "You can only cancel pending service requests"))
     ELSE IF count = 0
     THEN Return(p, op, actor, req,
                 Response("Forbidden",
                          "You don't have permission to update this service request"))
     ELSE Goto(p, op, "update_write", actor, req, <<>>)

Staff == {RoleAdmin, RoleFranchiseOwner, RoleServiceAgent}

\* the agent the payload names is a service agent the actor may assign
AssignableAgent(actor, agentID) ==
  /\ agentID \in DOMAIN users
  /\ users[agentID].role = RoleServiceAgent
  /\ Users[actor].role = RoleFranchiseOwner =>
       /\ users[agentID].franchise_id \in DOMAIN Franchises
       /\ Franchises[users[agentID].franchise_id].owner_id = actor

\* the updates map UpdateServiceRequest builds; a field the call leaves
\* alone keeps the value of the row
ApplyUpdates(row, role, req, currentStatus) ==
  LET status1 == IF req.status # "" /\ (role \in Staff \/
                      (role = RoleCustomer /\ req.status = ServiceStatusCancelled))
                 THEN req.status ELSE row.status
      assign == req.agent_id # 0 /\ role \in {RoleAdmin, RoleFranchiseOwner}
      status2 == IF assign /\ currentStatus = ServiceStatusPending
                 THEN ServiceStatusAssigned ELSE status1
  IN [row EXCEPT
        !.status = status2,
        !.scheduled_time = IF req.scheduled_date # "" /\ role \in Staff
                           THEN req.scheduled_date ELSE @,
        !.completion_time = IF req.completion_date # "" /\ role \in Staff
                            THEN req.completion_date ELSE @,
        !.notes = IF req.notes # "" /\ role \in Staff THEN req.notes ELSE @,
        !.service_agent_id = IF assign THEN req.agent_id ELSE @]

\* len(updates) = 0
NoUpdates(role, req) ==
  /\ ~(req.status # "" /\ (role \in Staff \/
         (role = RoleCustomer /\ req.status = ServiceStatusCancelled)))
  /\ ~(req.scheduled_date # "" /\ role \in Staff)
  /\ ~(req.completion_date # "" /\ role \in Staff)
  /\ ~(req.notes # "" /\ role \in Staff)
  /\ ~(req.agent_id # 0 /\ role \in {RoleAdmin, RoleFranchiseOwner})

\* the notifications UpdateServiceRequest creates, in the order of the code
UpdateNotifications(updated, req) ==
  (IF req.status # ""
   THEN <<ServiceNotification(updated.customer_id, "Service Request Updated",
                              <<"status updated to", req.status>>,
                              "service_request", updated.id)>>
   ELSE <<>>)
  \o (IF req.agent_id # 0
      THEN <<ServiceNotification(updated.customer_id, "Service Agent Assigned",
                                 <<"agent assigned">>, "service_request", updated.id),
             ServiceNotification(req.agent_id, "New Service Assignment",
                                 <<"assigned to request", updated.id>>,
                                 "service_request", updated.id)>>
      ELSE <<>>)
  \o (IF req.scheduled_date # ""
      THEN <<ServiceNotification(updated.customer_id, "Service Visit Scheduled",
                                 <<"scheduled for", req.scheduled_date>>,
                                 "service_request", updated.id)>>
      ELSE <<>>)

\* the transaction of UpdateServiceRequest: validation of the payload, the
\* UPDATE ... WHERE id = ?, the notifications and the commit
UpdateServiceRequestWrite(p, fault) ==
  /\ UNCHANGED users
  /\ proc[p].pc = "update_write"
  /\ UNCHANGED <<subscriptions, seq, gateway, calls>>
  /\ LET op == proc[p].op
         actor == proc[p].actor
         req == proc[p].req
         role == Users[actor].role
         tx0 == Begin(Store)
         byId == {r \in tx0.serviceRequests : r.id = req.id}
         assign == req.agent_id # 0 /\ role \in {RoleAdmin, RoleFranchiseOwner}
         currentStatus == IF byId = {} THEN "" ELSE First(byId).status
         tx1 == [tx0 EXCEPT !.serviceRequests =
                   {IF r.id = req.id THEN ApplyUpdates(r, role, req, currentStatus)
                    ELSE r : r \in @}]
         updated == First({r \in tx1.serviceRequests : r.id = req.id})
         tx2 == [tx1 EXCEPT !.notifications = @ \o UpdateNotifications(updated, req)]
     IN
     CASE req.scheduled_date # "" /\ role \in Staff
            /\ ~ParsesRFC3339(req.scheduled_date) ->
            /\ Install(Rollback(Store, tx0))
            /\ Return(p, op, actor, req,
                      Response("BadRequest", "Invalid scheduled date format"))
       [] ~(req.scheduled_date # "" /\ role \in Staff
              /\ ~ParsesRFC3339(req.scheduled_date))
            /\ req.completion_date # "" /\ role \in Staff
            /\ ~ParsesRFC3339(req.completion_date) ->
            /\ Install(Rollback(Store, tx0))
            /\ Return(p, op, actor, req,
                      Response("BadRequest", "Invalid completion date format"))
       [] OTHER ->
            IF assign /\ ~AssignableAgent(actor, req.agent_id)
            THEN /\ Install(Rollback(Store, tx0))
                 /\ Return(p, op, actor, req,
                           Response("BadRequest", "Invalid service agent ID"))
            ELSE IF NoUpdates(role, req)
            THEN /\ Install(Rollback(Store, tx0))
                 /\ Return(p, op, actor, req,
                           Response("BadRequest", "No valid updates provided"))
            ELSE IF fault = "update"
            THEN /\ Install(Rollback(Store, tx0))
                 /\ ReturnFault(p, op, actor, req,
                                Response("InternalServerError",
                                         "Failed to update service request"), fault)
            ELSE IF byId = {}
            THEN /\ Install(Rollback(Store, tx1))
                 /\ Return(p, op, actor, req,
                           Response("InternalServerError", "Server error"))
            ELSE IF fault = "notification" /\ UpdateNotifications(updated, req) # <<>>
            THEN /\ Install(Rollback(Store, tx1))
                 /\ ReturnFault(p, op, actor, req,
                                Response("InternalServerError",
                                         "Failed to create notification"), fault)
            ELSE IF fault = "commit"
            THEN /\ Install(Rollback(Store, tx2))
                 /\ ReturnFault(p, op, actor, req,
                                Response("InternalServerError",
                                         "Failed to update service request"), fault)
            ELSE /\ Install(Commit(Store, tx2))
                 /\ Return(p, op, actor, req, OK)


\* AssignServiceRequestToAgent: role gate and the read of the row
AssignServiceRequestToAgent(p, actor, req) ==
  /\ UNCHANGED users
  /\ Ready(p)
  /\ calls' = calls + 1
  /\ UNCHANGED <<tables, seq, gateway>>
  /\ LET op == "AssignServiceRequestToAgent"
         role == Users[actor].role
         byId == {r \in serviceRequests : r.id = req.id}
     IN
     IF role # RoleAdmin /\ role # RoleFranchiseOwner
     THEN Return(p, op, actor, req, Response("Forbidden", "Permission denied"))
     ELSE IF byId = {}
     THEN Return(p, op, actor, req, Response("NotFound", "Service request not found"))
     ELSE Goto(p, op, "assign_save", actor, req, [serviceRequest |-> First(byId)])

\* AssignServiceRequestToAgent: Save of the row that was read, with the agent
AssignServiceRequestSave(p, fault) ==
  /\ UNCHANGED users
  /\ proc[p].pc = "assign_save"
  /\ UNCHANGED <<orders, payments, subscriptions, notifications, seq, gateway, calls>>
  /\ LET op == proc[p].op
         actor == proc[p].actor
         req == proc[p].req
         serviceRequest == [proc[p].loc.serviceRequest EXCEPT
                              !.service_agent_id = req.service_agent_id]
     IN
     IF fault = "save"
     THEN /\ UNCHANGED serviceRequests
          /\ ReturnFault(p, op, actor, req,
                         Response("InternalServerError", "Failed to assign service agent"),
                         fault)
     ELSE /\ serviceRequests' = Save(serviceRequests, serviceRequest)
          /\ Return(p, op, actor, req, OK)

\* the states CancelServiceRequest refuses to cancel from
NotCancellable(status, role) ==
  /\ status # ServiceStatusPending
  /\ status # ServiceStatusAssigned
  /\ status # ServiceStatusScheduled
  /\ role # RoleCustomer

\* WHERE id = ? (the customer is left out of the query)
ServiceRequestById(rows, id, customer) == {r \in rows : r.id = id}

\* WHERE id = ? AND customer_id = ?
ServiceRequestOfCustomer(rows, id, customer) ==
  {r \in rows : r.id = id /\ r.customer_id = customer}

\* CancelServiceRequest: the read of the actor's row and the state check
CancelServiceRequest(p, actor, req) ==
  /\ UNCHANGED users
  /\ Ready(p)
  /\ calls' = calls + 1
  /\ UNCHANGED <<tables, seq, gateway>>
  /\ LET op == "CancelServiceRequest"
         found == ServiceRequestOfCustomer(serviceRequests, req.id, actor)
     IN
     IF found = {}
     THEN Return(p, op, actor, req,
                 Response("NotFound", "Service request not found or doesn't belong to you"))
     ELSE IF NotCancellable(First(found).status, Users[actor].role)
     THEN Return(p, op, actor, req,
                 Response("BadRequest",
                          "Service request cannot be cancelled in its current state"))
     ELSE Goto(p, op, "cancel_write", actor, req, [serviceRequest |-> First(found)])

\* UPDATE service_requests SET status = ? WHERE id = ?
SetStatus(rows, id, status) ==
  {IF r.id = id THEN [r EXCEPT !.status = status] ELSE r : r \in rows}

\* CancelServiceRequest: the transaction
CancelServiceRequestWrite(p, fault) ==
  /\ UNCHANGED users
  /\ proc[p].pc = "cancel_write"
  /\ UNCHANGED <<subscriptions, seq, gateway, calls>>
  /\ LET op == proc[p].op
         actor == proc[p].actor
         req == proc[p].req
         serviceRequest == proc[p].loc.serviceRequest
         tx0 == Begin(Store)
         tx1 == [tx0 EXCEPT !.serviceRequests =
                   SetStatus(@, serviceRequest.id, ServiceStatusCancelled)]
         tx2 == [tx1 EXCEPT !.notifications =
                   Append(@, ServiceNotification(actor, "Service Request Cancelled",
                                                 <<"cancelled">>, "service_request",
                                                 serviceRequest.id))]
         tx3 == IF serviceRequest.service_agent_id # 0
                THEN [tx2 EXCEPT !.notifications =
                        Append(@, ServiceNotification(serviceRequest.service_agent_id,
                                                      "Service Request Cancelled",
                                                      <<"cancelled by the customer">>,
                                                      "service_request",
                                                      serviceRequest.id))]
                ELSE tx2
     IN
     CASE fault = "update" ->
            /\ Install(Rollback(Store, tx0))
            /\ ReturnFault(p, op, actor, req,
                           Response("InternalServerError",
                                    "Failed to cancel service request"), fault)
       [] fault = "notification" ->
            /\ Install(Rollback(Store, tx1))
            /\ ReturnFault(p, op, actor, req,
                           Response("InternalServerError",
                                    "Failed to create notification"), fault)
       [] fault = "agent_notification" /\ serviceRequest.service_agent_id # 0 ->
            /\ Install(Rollback(Store, tx2))
            /\ ReturnFault(p, op, actor, req,
                           Response("InternalServerError",
                                    "Failed to create notification"), fault)
       [] fault = "commit" ->
            /\ Install(Rollback(Store, tx3))
            /\ ReturnFault(p, op, actor, req,
                           Response("InternalServerError",
                                    "Failed to cancel service request"), fault)
       [] OTHER ->
            /\ Install(Commit(Store, tx3))
            /\ Return(p, op, actor, req, OK)

\* SubmitServiceFeedback: binding of the rating and the read of the actor's
\* completed row
SubmitServiceFeedback(p, actor, req) ==
  /\ UNCHANGED users
  /\ Ready(p)
  /\ calls' = calls + 1
  /\ UNCHANGED <<tables, seq, gateway>>
  /\ LET op == "SubmitServiceFeedback"
         found == {r \in serviceRequests : /\ r.id = req.id
                                            /\ r.customer_id = actor
                                            /\ r.status = ServiceStatusCompleted}
     IN
     IF req.rating < 1 \/ req.rating > 5 \/ req.feedback = ""
     THEN Return(p, op, actor, req, Response("BadRequest", "binding"))
     ELSE IF found = {}
     THEN Return(p, op, actor, req,
                 Response("NotFound",
                          "Service request not found, doesn't belong to you, or is not completed"))
     ELSE Goto(p, op, "feedback_write", actor, req, [serviceRequest |-> First(found)])

\* an update that keeps a rating the row already has
RecordFirstFeedback(rows, id, rating, feedback) ==
  {IF r.id = id /\ r.rating = 0
   THEN [r EXCEPT !.rating = rating, !.feedback = feedback]
   ELSE r : r \in rows}

\* tx.Model(&serviceRequest).Updates({rating, feedback}): UPDATE ... WHERE id = ?
RecordFeedback(rows, id, rating, feedback) ==
  {IF r.id = id
   THEN [r EXCEPT !.rating = rating, !.feedback = feedback]
   ELSE r : r \in rows}

\* SubmitServiceFeedback: the transaction
SubmitServiceFeedbackWrite(p, fault) ==
  /\ UNCHANGED users
  /\ proc[p].pc = "feedback_write"
  /\ UNCHANGED <<subscriptions, seq, gateway, calls>>
  /\ LET op == proc[p].op
         actor == proc[p].actor
         req == proc[p].req
         serviceRequest == proc[p].loc.serviceRequest
         tx0 == Begin(Store)
         tx1 == [tx0 EXCEPT !.serviceRequests =
                   RecordFeedback(@, serviceRequest.id, req.rating, req.feedback)]
         tx2 == IF serviceRequest.service_agent_id # 0
                THEN [tx1 EXCEPT !.notifications =
                        Append(@, ServiceNotification(serviceRequest.service_agent_id,
                                                      "Service Feedback Received",
                                                      <<"rating", req.rating>>,
                                                      "service_feedback",
                                                      serviceRequest.id))]
                ELSE tx1
     IN
     CASE fault = "update" ->
            /\ Install(Rollback(Store, tx0))
            /\ ReturnFault(p, op, actor, req,
                           Response("InternalServerError", "Failed to submit feedback"),
                           fault)
       [] fault = "notification" /\ serviceRequest.service_agent_id # 0 ->
            /\ Install(Rollback(Store, tx1))
            /\ ReturnFault(p, op, actor, req,
                           Response("InternalServerError",
                                    "Failed to create notification"), fault)
       [] fault = "commit" ->
            /\ Install(Rollback(Store, tx2))
            /\ ReturnFault(p, op, actor, req,
                           Response("InternalServerError", "Failed to submit feedback"),
                           fault)
       [] OTHER ->
            /\ Install(Commit(Store, tx2))
            /\ Return(p, op, actor, req, OK)

-----------------------------------------------------------------------------

Init ==
  /\ orders = {}
  /\ payments = {}
  /\ subscriptions =
       {[id |-> 1, customer_id |-> 1, order_id |-> 9, franchise_id |-> 1,
         monthly_rent |-> 300, status |-> SubscriptionStatusActive],
        [id |-> 2, customer_id |-> 1, order_id |-> 9, franchise_id |-> 2,
         monthly_rent |-> 50, status |-> "cancelled"],
        [id |-> 4, customer_id |-> 2, order_id |-> 9, franchise_id |-> 0,
         monthly_rent |-> 50, status |-> SubscriptionStatusActive]}
  /\ notifications = <<>>
  /\ serviceRequests = {}
  /\ users = Users
  /\ seq = [order |-> 1, payment |-> 1, service_request |-> 1]
  /\ gateway = 1
  /\ proc = [p \in Procs |-> Idle]
  /\ calls = 0

-----------------------------------------------------------------------------
(* The calls the clients make: <<actor, request>> or <<actor, request, fault>> *)

OrderRequest(product, duration) ==
  [product_id |-> product, franchise_id |-> 1, rental_duration |-> duration]

OrderCalls ==
  ({1, 2} \X {OrderRequest(1, 12), OrderRequest(2, 1)} \X {"none"})
  \cup ({1} \X {OrderRequest(1, 12)}
            \X {"order_insert", "gateway", "payment_insert", "commit"})
  \cup {<<1, OrderRequest(3, 1), "none">>, <<3, OrderRequest(1, 12), "none">>,
        <<1, OrderRequest(1, 0), "none">>}

\* a confirmation for gateway order g and gateway payment n, signed with key
Confirmation(g, n, key, order, subscription) ==
  [payment_id |-> GatewayPaymentId(n),
   order_id |-> GatewayOrderId(g),
   signature |-> Hmac(key, <<GatewayOrderId(g), GatewayPaymentId(n)>>),
   aquahome_order_id |-> order,
   subscription_id |-> subscription]

\* the payments the gateway takes: <<gateway order, gateway payment>>; a
\* gateway order may see more than one payment attempt
GatewayPayments == {<<1, 1>>, <<1, 2>>, <<2, 3>>}

VerifyRequests ==
  {Confirmation(gp[1], gp[2], RazorpaySecret, t[1], t[2]) :
     gp \in GatewayPayments, t \in {<<1, 0>>, <<2, 0>>, <<0, 1>>}}
  \cup {Confirmation(1, n, ForgedSecret, t[1], t[2]) :
          n \in {1, 2}, t \in {<<1, 0>>, <<0, 1>>}}
  \cup {[Confirmation(1, 1, RazorpaySecret, 1, 0) EXCEPT
           !.signature = Hmac(RazorpaySecret, <<GatewayOrderId(1), GatewayPaymentId(2)>>)]}
  \cup {Confirmation(1, 1, RazorpaySecret, 0, 0),
        Confirmation(1, 1, RazorpaySecret, 0, 2),
        Confirmation(1, 1, RazorpaySecret, 0, 3),
        [Confirmation(1, 1, RazorpaySecret, 1, 0) EXCEPT !.payment_id = NoId]}

VerifyCalls ==
  ({1} \X VerifyRequests)
  \cup ({2} \X {Confirmation(1, 1, RazorpaySecret, t[1], t[2]) :
                  t \in {<<1, 0>>, <<2, 0>>, <<0, 1>>}})
  \cup ({3} \X {Confirmation(1, 1, RazorpaySecret, 1, 0),
                 Confirmation(1, 1, ForgedSecret, 1, 0),
                 [Confirmation(1, 1, ForgedSecret, 1, 0) EXCEPT !.order_id = NoId]})

VerifyFaults == {"none", "payment_update", "order_update", "notification", "commit"}

MonthlyCalls ==
  ({1, 2} \X {[subscription_id |-> 1]} \X {"none"})
  \cup ({1} \X {[subscription_id |-> 1]} \X {"gateway", "lookup"})
  \cup {<<1, [subscription_id |-> 2], "none">>, <<1, [subscription_id |-> 3], "none">>,
        <<3, [subscription_id |-> 1], "none">>}

WriteFaults == {"none", "write"}

NoFault == {"none"}

Payments(p, oc, vc, vf, mc, wf) ==
  \/ \E c \in oc : GeneratePaymentOrder(p, c[1], c[2], c[3])
  \/ \E c \in vc : VerifyPayment(p, c[1], c[2])
  \/ VerifyPaymentLoad(p)
  \/ VerifyPaymentPending(p)
  \/ \E fault \in vf : VerifyPaymentCommit(p, fault)
  \/ \E c \in mc : GenerateMonthlyPayment(p, c[1], c[2], c[3])
  \/ \E fault \in wf : \E timestamp \in Dates :
       GenerateMonthlyPaymentWrite(p, fault, timestamp)

\* the calls of one customer who pays for one order and one subscription
OneOrderCalls == {<<1, OrderRequest(1, 12), "none">>}

OneOrderVerifyCalls ==
  {1} \X {Confirmation(1, 1, RazorpaySecret, 1, 0),
          Confirmation(1, 2, RazorpaySecret, 1, 0),
          Confirmation(1, 1, RazorpaySecret, 0, 1)}

OneSubscriptionCalls == {<<1, [subscription_id |-> 1], "none">>}

ServiceCreateCalls ==
  ({1} \X {[subscription_id |-> 1, scheduled_time |-> "2026-01-10T09:00:00Z"]}
       \X {"none", "insert", "notification", "owner_notification", "commit"})
  \cup {<<1, [subscription_id |-> 1, scheduled_time |-> "next week"], "none">>,
        <<1, [subscription_id |-> 2, scheduled_time |-> "2026-01-10T09:00:00Z"], "none">>,
        <<2, [subscription_id |-> 1, scheduled_time |-> "2026-01-10T09:00:00Z"], "none">>}

\* the same calls, and those on a subscription that has no franchise
AllServiceCreateCalls ==
  ServiceCreateCalls
  \cup ({2} \X {[subscription_id |-> 4, scheduled_time |-> "2026-01-10T09:00:00Z"]}
            \X {"none", "owner_notification"})

Update(id, status, agent, scheduled, completion, notes) ==
  [id |-> id, status |-> status, agent_id |-> agent, scheduled_date |-> scheduled,
   completion_date |-> completion, notes |-> notes]

UpdateRequests ==
  {Update(1, st, 0, "", "", "") :
     st \in {"", ServiceStatusPending, ServiceStatusAssigned, ServiceStatusScheduled,
             ServiceStatusCompleted, ServiceStatusCancelled}}
  \cup {Update(1, "", a, "", "", "") : a \in {1, 5, 6}}
  \cup {Update(1, ServiceStatusScheduled, 5, "2026-01-20T09:00:00Z", "", ""),
        Update(1, ServiceStatusCancelled, 5, "2026-01-20T09:00:00Z",
               "2026-01-20T09:00:00Z", "done"),
        Update(1, "", 0, "tomorrow", "", ""),
        Update(1, "", 0, "", "tomorrow", ""),
        Update(1, ServiceStatusCompleted, 0, "", "2026-01-20T09:00:00Z", "done"),
        Update(2, ServiceStatusCancelled, 0, "", "", "")}

UpdateCalls ==
  ({1, 3} \X UpdateRequests)
  \cup ({4, 5} \X {Update(1, ServiceStatusScheduled, 0, "", "", ""),
                   Update(1, ServiceStatusCompleted, 0, "", "2026-01-20T09:00:00Z", "done"),
                   Update(1, "", 5, "", "", ""),
                   Update(1, "", 6, "", "", "")})
  \cup ({2, 6, 7} \X {Update(1, ServiceStatusCancelled, 0, "", "", ""),
                      Update(1, ServiceStatusScheduled, 0, "", "", ""),
                      Update(1, "", 6, "", "", "")})

UpdateFaults == {"none", "update", "notification", "commit"}

AssignCalls ==
  ({3, 4} \X {[id |-> i, service_agent_id |-> a] : i \in {1, 2}, a \in {5, 1}})
  \cup ({1, 5} \X {[id |-> 1, service_agent_id |-> 5]})
  \cup {<<7, [id |-> 1, service_agent_id |-> 6]>>,
        <<4, [id |-> 1, service_agent_id |-> 6]>>}

AssignFaults == {"none", "save"}

CancelCalls == {1, 2, 3} \X {[id |-> 1], [id |-> 2]}

CancelFaults == {"none", "update", "notification", "agent_notification", "commit"}

FeedbackCalls ==
  {1, 2} \X {[id |-> 1, rating |-> 5, feedback |-> "good"],
             [id |-> 1, rating |-> 1, feedback |-> "late"],
             [id |-> 1, rating |-> 6, feedback |-> "good"]}

FeedbackFaults == {"none", "update", "notification", "commit"}

Services(p, cc, uc, uf, ac, af, xc, xf, fc, ff) ==
  \/ \E c \in cc : CreateServiceRequest(p, c[1], c[2], c[3])
  \/ \E c \in uc : UpdateServiceRequest(p, c[1], c[2])
  \/ \E fault \in uf : UpdateServiceRequestWrite(p, fault)
  \/ \E c \in ac : AssignServiceRequestToAgent(p, c[1], c[2])
  \/ \E fault \in af : AssignServiceRequestSave(p, fault)
  \/ \E c \in xc : CancelServiceRequest(p, c[1], c[2])
  \/ \E fault \in xf : CancelServiceRequestWrite(p, fault)
  \/ \E c \in fc : SubmitServiceFeedback(p, c[1], c[2])
  \/ \E fault \in ff : SubmitServiceFeedbackWrite(p, fault)

\* the calls around one service request of customer 1
OneRequestCreateCalls ==
  {<<1, [subscription_id |-> 1, scheduled_time |-> "2026-01-10T09:00:00Z"], "none">>}

OneRequestUpdateCalls ==
  {<<1, Update(1, ServiceStatusCancelled, 0, "", "", "")>>,
   <<3, Update(1, "", 5, "", "", "")>>,
   <<3, Update(1, ServiceStatusCompleted, 0, "", "", "")>>}

OneRequestAssignCalls == {<<3, [id |-> 1, service_agent_id |-> 5]>>}

OneRequestCancelCalls == {<<1, [id |-> 1]>>}

OneRequestFeedbackCalls == {<<1, [id |-> 1, rating |-> 5, feedback |-> "good"]>>}

\* every handler, called one after the other
PayNext ==
  \E p \in {1} :
    Payments(p, OrderCalls, VerifyCalls, VerifyFaults, MonthlyCalls, WriteFaults)

PaySpec == Init /\ [][PayNext]_vars

SvcNext ==
  \E p \in {1} :
    Services(p, ServiceCreateCalls, UpdateCalls, UpdateFaults, AssignCalls,
             AssignFaults, CancelCalls, CancelFaults, FeedbackCalls, FeedbackFaults)

SvcSpec == Init /\ [][SvcNext]_vars

\* CreateServiceRequest alone, on every kind of subscription
CreateNext ==
  \E p \in {1} :
    \E c \in AllServiceCreateCalls : CreateServiceRequest(p, c[1], c[2], c[3])

CreateSpec == Init /\ [][CreateNext]_vars

\* two requests in flight at a time
PayRaceNext ==
  \E p \in Procs :
    Payments(p, OneOrderCalls, OneOrderVerifyCalls, NoFault,
             OneSubscriptionCalls, NoFault)

PayRaceSpec == Init /\ [][PayRaceNext]_vars

SvcRaceNext ==
  \E p \in Procs :
    Services(p, OneRequestCreateCalls, OneRequestUpdateCalls, NoFault,
             OneRequestAssignCalls, NoFault, OneRequestCancelCalls, NoFault,
             OneRequestFeedbackCalls, NoFault)

SvcRaceSpec == Init /\ [][SvcRaceNext]_vars

\* the calls that name an order, a subscription or a service request which
\* is the caller's own, another customer's, or absent
LookupOrderCalls == {1, 2} \X {OrderRequest(1, 12)} \X {"none"}

LookupVerifyCalls ==
  {1, 2} \X {Confirmation(1, 1, RazorpaySecret, 1, 0),
             Confirmation(1, 1, RazorpaySecret, 0, 1),
             Confirmation(1, 1, RazorpaySecret, 0, 3)}

LookupMonthlyCalls == {1, 2} \X {[subscription_id |-> 1], [subscription_id |-> 3]}
                             \X {"none"}

LookupCreateCalls ==
  {1, 2} \X {[subscription_id |-> 1, scheduled_time |-> "2026-01-10T09:00:00Z"],
             [subscription_id |-> 4, scheduled_time |-> "2026-01-10T09:00:00Z"]}
         \X {"none"}

LookupCancelCalls == {1, 2, 3} \X {[id |-> 1]}

LookupNext ==
  \E p \in {1} :
    \/ Payments(p, LookupOrderCalls, LookupVerifyCalls, NoFault,
                LookupMonthlyCalls, NoFault)
    \/ \E c \in LookupCreateCalls : CreateServiceRequest(p, c[1], c[2], c[3])
    \/ \E c \in LookupCancelCalls : CancelServiceRequest(p, c[1], c[2])
    \/ \E fault \in NoFault : CancelServiceRequestWrite(p, fault)

LookupSpec == Init /\ [][LookupNext]_vars

-----------------------------------------------------------------------------
(* The franchise dashboard *)

\* strconv.ParseUint(franchiseIDParam, 10, 64); -1 stands for its error
ParseUint(s) ==
  CASE s = "1" -> 1
    [] s = "2" -> 2
    [] s = "9" -> 9
    [] OTHER -> -1

\* WHERE owner_id = ?, the first row
FranchiseOfOwner(owner) ==
  LET owned == {f \in DOMAIN Franchises : Franchises[f].owner_id = owner}
  IN IF owned = {} THEN 0
     ELSE CHOOSE f \in owned : \A g \in owned : f <= g

GetFranchiseDashboard(p, actor, franchiseIDParam, fault) ==
  /\ Ready(p)
  /\ calls' = calls + 1
  /\ UNCHANGED <<tables, seq, gateway>>
  /\ LET op == "GetFranchiseDashboard"
         req == [franchiseId |-> franchiseIDParam]
         role == Users[actor].role
         user == users[actor]
         unlinkedOwner == user.franchise_id = 0 /\ user.role = RoleFranchiseOwner
         f == FranchiseOfOwner(actor)
         franchiseID == IF franchiseIDParam # "" THEN ParseUint(franchiseIDParam)
                        ELSE IF unlinkedOwner THEN f
                        ELSE user.franchise_id
         \* user.FranchiseID = &f.ID and Save(&user); a failed Save is only logged
         linked == IF franchiseIDParam = "" /\ unlinkedOwner /\ f # 0 /\ fault # "save"
                   THEN [users EXCEPT ![actor].franchise_id = f]
                   ELSE users
     IN
     CASE franchiseIDParam # "" /\ ParseUint(franchiseIDParam) = -1 ->
            /\ UNCHANGED users
            /\ ReturnFault(p, op, actor, req,
                           Response("BadRequest", "Invalid franchise ID"), fault)
       [] franchiseIDParam = "" /\ fault = "user_lookup" ->
            /\ UNCHANGED users
            /\ ReturnFault(p, op, actor, req,
                           Response("InternalServerError", "User not found"), fault)
       [] franchiseIDParam = "" /\ unlinkedOwner /\ f = 0 ->
            /\ UNCHANGED users
            /\ ReturnFault(p, op, actor, req,
                           Response("BadRequest", "No franchise linked to your account"),
                           fault)
       [] franchiseIDParam = "" /\ ~unlinkedOwner /\ user.franchise_id = 0 ->
            /\ UNCHANGED users
            /\ ReturnFault(p, op, actor, req,
                           Response("BadRequest", "Franchise not found for user"), fault)
       [] OTHER ->
            /\ users' = linked
            /\ IF franchiseID \notin DOMAIN Franchises
               THEN ReturnFault(p, op, actor, req,
                                Response("BadRequest", "Franchise not found"), fault)
               ELSE IF role = RoleFranchiseOwner
                       /\ Franchises[franchiseID].owner_id # actor
               THEN ReturnFault(p, op, actor, req,
                                Response("Forbidden",
                                         "You don't have permission to view this dashboard"),
                                fault)
               ELSE IF role = RoleFranchiseOwner
                       /\ (\/ ~Franchises[franchiseID].is_active
                           \/ Franchises[franchiseID].approval_state # "approved")
               THEN ReturnFault(p, op, actor, req,
                                Response("Forbidden",
                                         "Franchise not yet approved or activated"),
                                fault)
               ELSE IF fault = "stats"
               THEN ReturnFault(p, op, actor, req,
                                Response("InternalServerError", "Failed to fetch users"),
                                fault)
               ELSE ReturnFault(p, op, actor, req, OK, fault)

DashboardCalls ==
  {1, 3, 4, 7} \X {"", "1", "2", "x"} \X {"none", "user_lookup", "save", "stats"}

DashboardNext ==
  \E p \in {1} :
    \/ \E c \in DashboardCalls : GetFranchiseDashboard(p, c[1], c[2], c[3])
    \/ \E c \in AllServiceCreateCalls : CreateServiceRequest(p, c[1], c[2], c[3])

DashboardSpec == Init /\ [][DashboardNext]_vars

\* payments and service requests together, called one after the other
Next ==
  \E p \in {1} :
    \/ Payments(p, OrderCalls, OneOrderVerifyCalls, VerifyFaults,
                OneSubscriptionCalls, WriteFaults)
    \/ Services(p, OneRequestCreateCalls, OneRequestUpdateCalls, UpdateFaults,
                OneRequestAssignCalls, AssignFaults, OneRequestCancelCalls,
                CancelFaults, OneRequestFeedbackCalls, FeedbackFaults)

Spec == Init /\ [][Next]_vars

-----------------------------------------------------------------------------
(* Properties *)

\* the step in which a call of handler op arrives, in a specification that
\* runs one call after the other
Called(op) == calls' = calls + 1 /\ proc'[1].op = op

\* the step in which the VerifyPayment call of process 1 returns
VerifyPaymentReturns ==
  /\ proc'[1].op = "VerifyPayment"
  /\ proc'[1].pc = "done"
  /\ \/ Called("VerifyPayment")
     \/ proc[1].pc \in {"vp_load", "vp_pending", "vp_commit"}

PassesGates(pr) ==
  /\ pr.op = "VerifyPayment"
  /\ Users[pr.actor].role = RoleCustomer
  /\ pr.req.payment_id # NoId /\ pr.req.order_id # NoId
  /\ pr.req.signature = Hmac(RazorpaySecret, <<pr.req.order_id, pr.req.payment_id>>)

\* C1: calling VerifyPayment again with a gatewayPaymentID and a valid
\* signature after a call with that id has succeeded returns AlreadyProcessed
\* (409) and leaves every table as it was; so at most one call succeeds.
C1_SecondCallAlreadyProcessed ==
  [][(/\ proc[1].op = "VerifyPayment" /\ proc[1].pc = "done" /\ proc[1].result = OK
      /\ Called("VerifyPayment")
      /\ PassesGates(proc'[1])
      /\ proc'[1].req.payment_id = proc[1].req.payment_id)
     => (/\ proc'[1].pc = "done"
         /\ proc'[1].result.status = "Conflict"
         /\ UNCHANGED tables)]_vars

\* C2: of two VerifyPayment calls for the same gatewayPaymentID and the same
\* order that run concurrently, at most one returns success.
C2_OneWinner ==
  \A p, q \in Procs :
    (/\ p # q
     /\ proc[p].op = "VerifyPayment" /\ proc[q].op = "VerifyPayment"
     /\ proc[p].pc = "done" /\ proc[q].pc = "done"
     /\ proc[p].req.subscription_id = 0 /\ proc[q].req.subscription_id = 0
     /\ proc[p].req.aquahome_order_id = proc[q].req.aquahome_order_id
     /\ proc[p].req.payment_id = proc[q].req.payment_id)
    => ~(proc[p].result = OK /\ proc[q].result = OK)

\* C3: a VerifyPayment call whose signature is not the HMAC of
\* gatewayOrderID|gatewayPaymentID under the gateway secret is rejected in
\* its first step and changes no table, whatever its other fields are; from
\* a customer who sent both identifiers the rejection is InvalidSignature.
C3_InvalidSignatureRejected ==
  [][(/\ Called("VerifyPayment")
      /\ proc'[1].req.signature #
           Hmac(RazorpaySecret, <<proc'[1].req.order_id, proc'[1].req.payment_id>>))
     => (/\ proc'[1].pc = "done"
         /\ proc'[1].result.status \in {"BadRequest", "Forbidden"}
         /\ UNCHANGED tables
         /\ (/\ Users[proc'[1].actor].role = RoleCustomer
             /\ proc'[1].req.payment_id # NoId /\ proc'[1].req.order_id # NoId)
            => proc'[1].result = Response("BadRequest", "Invalid payment signature"))]_vars

C3_Witness ==
  /\ proc[1].op = "VerifyPayment" /\ proc[1].pc = "done"
  /\ proc[1].req.signature.key = ForgedSecret
  /\ proc[1].result.error = "Invalid payment signature"
  /\ \E o \in orders : o.id = proc[1].req.aquahome_order_id
                       /\ o.customer_id = proc[1].actor
                       /\ o.status = OrderStatusPending

\* the caller confirms the payment of an order of theirs that is pending
VerifiesOwnPendingOrder(pr, os) ==
  /\ PassesGates(pr)
  /\ pr.req.subscription_id = 0
  /\ \E o \in os : /\ o.id = pr.req.aquahome_order_id
                   /\ o.customer_id = pr.actor
                   /\ o.status = OrderStatusPending

\* the order is approved and its initial payment is success under the id
Reconciled(pr, os, ps) ==
  /\ \E o \in os : o.id = pr.req.aquahome_order_id /\ o.status = OrderStatusApproved
  /\ \A x \in ps : (x.order_id = pr.req.aquahome_order_id /\ x.payment_type = "initial")
                   => (/\ x.status = PaymentStatusSuccess
                       /\ x.transaction_id = pr.req.payment_id)
  /\ \E x \in ps : x.order_id = pr.req.aquahome_order_id /\ x.payment_type = "initial"

OnePaymentNotification(pr) ==
  /\ Len(notifications') = Len(notifications) + 1
  /\ SubSeq(notifications', 1, Len(notifications)) = notifications
  /\ notifications'[Len(notifications')].user_id = pr.actor
  /\ notifications'[Len(notifications')].type = "payment"

\* C4 as stated: the first VerifyPayment of the owning customer with a valid
\* signature on an order made by CreateOrder returns success, leaves the
\* order approved and its initial payment success under the gatewayPaymentID,
\* and adds exactly one payment notification for the customer (read for the
\* calls in which the store works).
C4_FirstVerifyReconciles ==
  [][(/\ VerifyPaymentReturns
      /\ VerifiesOwnPendingOrder(proc'[1], orders)
      /\ proc'[1].loc.fault = "none")
     => (/\ proc'[1].result = OK
         /\ Reconciled(proc'[1], orders', payments')
         /\ OnePaymentNotification(proc'[1]))]_vars

\* C5: every stored order has total_initial_amount = security_deposit +
\* installation_fee + monthly_rent * rental_duration at the product's prices,
\* and no step changes the total of a stored order.
C5_TotalInitialAmount ==
  /\ [](\A o \in orders :
          /\ o.security_deposit = Products[o.product_id].security_deposit
          /\ o.installation_fee = Products[o.product_id].installation_fee
          /\ o.total_initial_amount =
               o.security_deposit + o.installation_fee
                 + Products[o.product_id].monthly_rent * o.rental_duration)
  /\ [][\A o \in orders :
          \E n \in orders' : /\ n.id = o.id
                             /\ n.total_initial_amount = o.total_initial_amount]_vars

C5_Witness ==
  \E o \in orders : /\ o.total_initial_amount = 5100
                    /\ o.rental_duration = 12
                    /\ o.status = OrderStatusApproved

\* C6: once a service request is cancelled, no step changes its status.
C6_CancelledIsTerminal ==
  [][\A r \in serviceRequests :
       r.status = ServiceStatusCancelled
       => \E n \in serviceRequests' : n.id = r.id /\ n.status = ServiceStatusCancelled]_vars

\* C7: an UpdateServiceRequest call of a customer is rejected with
\* PermissionDenied (403) and changes no table unless it asks for cancelled
\* on a request of that customer that is pending, whatever else it carries.
C7_CustomerMayOnlyCancelPending ==
  [][(/\ Called("UpdateServiceRequest")
      /\ Users[proc'[1].actor].role = RoleCustomer
      /\ ~(/\ proc'[1].req.status = ServiceStatusCancelled
           /\ \E r \in serviceRequests : /\ r.id = proc'[1].req.id
                                         /\ r.customer_id = proc'[1].actor
                                         /\ r.status = ServiceStatusPending))
     => (/\ proc'[1].pc = "done"
         /\ proc'[1].result.status = "Forbidden"
         /\ UNCHANGED tables)]_vars

C7_Witness ==
  /\ proc[1].op = "UpdateServiceRequest" /\ proc[1].pc = "done"
  /\ proc[1].result.status = "Forbidden"
  /\ proc[1].req.status = ServiceStatusCancelled
  /\ proc[1].req.agent_id # 0 /\ proc[1].req.notes # ""
  /\ \E r \in serviceRequests : /\ r.id = proc[1].req.id
                                /\ r.customer_id = proc[1].actor
                                /\ r.status # ServiceStatusPending

\* C8: at most one pending initial payment per order and at most one pending
\* monthly payment per subscription, after any sequence of calls.
C8_OnePendingPayment ==
  /\ \A o \in orders :
       Cardinality({x \in payments : /\ x.order_id = o.id
                                     /\ x.payment_type = "initial"
                                     /\ x.status = PaymentStatusPending}) <= 1
  /\ \A s \in subscriptions :
       Cardinality({x \in payments : /\ x.subscription_id = s.id
                                     /\ x.payment_type = "monthly"
                                     /\ x.status = PaymentStatusPending}) <= 1

C8_Witness ==
  /\ proc[1].op = "GenerateMonthlyPayment" /\ proc[1].pc = "done"
  /\ \E x \in payments : /\ x.payment_type = "monthly"
                         /\ x.status = PaymentStatusPending
                         /\ x.transaction_id # GatewayOrderId(x.id)
                         /\ x.transaction_id = GatewayOrderId(gateway - 1)
  /\ gateway > 2

\* C9: a payment that has status success is never changed again: no step
\* changes its status, its transaction id or its details.
C9_SuccessIsImmutable ==
  [][\A x \in payments :
       x.status = PaymentStatusSuccess
       => \E n \in payments' : /\ n.id = x.id
                               /\ n.status = x.status
                               /\ n.transaction_id = x.transaction_id
                               /\ n.payment_details = x.payment_details]_vars

\* C10: CreateOrder stores the order and its pending initial payment together
\* or not at all: every stored order has exactly one initial payment, every
\* initial payment has its order, and a call that does not return success
\* leaves both tables as they were.
C10_OrderAndPaymentTogether ==
  /\ [](/\ \A o \in orders :
             Cardinality({x \in payments : /\ x.order_id = o.id
                                           /\ x.payment_type = "initial"}) = 1
        /\ \A x \in payments :
             x.payment_type = "initial" => \E o \in orders : o.id = x.order_id)
  /\ [][(Called("GeneratePaymentOrder") /\ proc'[1].result # OK)
        => (orders' = orders /\ payments' = payments)]_vars

C10_Witness ==
  /\ proc[1].op = "GeneratePaymentOrder" /\ proc[1].pc = "done"
  /\ proc[1].loc.fault = "payment_insert"
  /\ proc[1].result.status = "InternalServerError"
  /\ Cardinality(orders) < seq.order - 1

\* the step in which the VerifyPayment call of process 1 makes its first read
VerifyPaymentLoads == proc[1].pc = "vp_load" /\ proc'[1].pc # "vp_load"

\* C11: on the initial-order branch a VerifyPayment call that finds the order
\* of the caller in another status than pending returns InvalidState (400)
\* with that status and changes no table; a call returns success only for an
\* order that is pending.
C11_OnlyPendingOrderIsVerified ==
  /\ [][(VerifyPaymentLoads /\ proc[1].req.subscription_id = 0)
        => \A o \in orders :
             (/\ o.id = proc[1].req.aquahome_order_id
              /\ o.customer_id = proc[1].actor
              /\ o.status # OrderStatusPending)
             => (/\ proc'[1].pc = "done"
                 /\ proc'[1].result =
                      ResponseWith("BadRequest", "Order is not in pending state", o.status)
                 /\ UNCHANGED tables)]_vars
  /\ [][(/\ VerifyPaymentReturns
         /\ proc'[1].req.subscription_id = 0
         /\ proc'[1].result = OK)
        => \E o \in orders : /\ o.id = proc'[1].req.aquahome_order_id
                             /\ o.status = OrderStatusPending]_vars

C11_Witness ==
  /\ proc[1].op = "VerifyPayment" /\ proc[1].pc = "done"
  /\ proc[1].result =
       ResponseWith("BadRequest", "Order is not in pending state", OrderStatusApproved)
  /\ \E o \in orders : /\ o.id = proc[1].req.aquahome_order_id
                       /\ o.customer_id = proc[1].actor
                       /\ o.status = OrderStatusApproved

\* C12: a VerifyPayment call for an order of another customer returns
\* NotFound at its first read and changes no table, and only a VerifyPayment
\* call of the order's own customer makes an order approved or a payment
\* success.
C12_OnlyOwnOrderIsVerified ==
  /\ [][(/\ VerifyPaymentLoads
         /\ proc[1].req.subscription_id = 0
         /\ \E o \in orders : /\ o.id = proc[1].req.aquahome_order_id
                              /\ o.customer_id # proc[1].actor)
        => (/\ proc'[1].pc = "done"
            /\ proc'[1].result = Response("NotFound", "Order not found")
            /\ UNCHANGED tables)]_vars
  /\ [][(/\ VerifyPaymentReturns
         /\ proc'[1].req.subscription_id = 0
         /\ \E o \in orders : /\ o.id = proc'[1].req.aquahome_order_id
                              /\ o.customer_id # proc'[1].actor)
        => (proc'[1].result # OK /\ UNCHANGED tables)]_vars
  /\ [][\A o \in orders' :
          (o.status = OrderStatusApproved /\ o \notin orders)
          => (proc'[1].op = "VerifyPayment" /\ proc'[1].actor = o.customer_id)]_vars
  /\ [][\A x \in payments' :
          (x.status = PaymentStatusSuccess /\ x \notin payments)
          => (/\ proc'[1].op = "VerifyPayment"
              /\ \E o \in orders' : /\ o.id = x.order_id
                                    /\ o.customer_id = proc'[1].actor)]_vars

C12_Witness ==
  /\ proc[1].op = "VerifyPayment" /\ proc[1].pc = "done"
  /\ proc[1].result = Response("NotFound", "Order not found")
  /\ proc[1].req.signature =
       Hmac(RazorpaySecret, <<proc[1].req.order_id, proc[1].req.payment_id>>)
  /\ \E o \in orders : /\ o.id = proc[1].req.aquahome_order_id
                       /\ o.customer_id # proc[1].actor
                       /\ o.status = OrderStatusPending

\* C13: on the subscription branch a VerifyPayment call returns NotFound
\* when no subscription with that id belongs to the caller and InvalidState
\* (400) when the caller's subscription is not active; no table changes in
\* either case.
C13_SubscriptionMustBeOwnAndActive ==
  [][(VerifyPaymentLoads /\ proc[1].req.subscription_id # 0)
     => LET own == {s \in subscriptions : /\ s.id = proc[1].req.subscription_id
                                          /\ s.customer_id = proc[1].actor}
        IN /\ own = {}
              => (/\ proc'[1].pc = "done"
                  /\ proc'[1].result = Response("NotFound", "Subscription not found")
                  /\ UNCHANGED tables)
           /\ (own # {} /\ \A s \in own : s.status # SubscriptionStatusActive)
              => (/\ proc'[1].pc = "done"
                  /\ proc'[1].result = Response("BadRequest", "Subscription is not active")
                  /\ UNCHANGED tables)]_vars

C13_Witness ==
  /\ proc[1].op = "VerifyPayment" /\ proc[1].pc = "done"
  /\ proc[1].result = Response("NotFound", "Subscription not found")
  /\ \E s \in subscriptions : /\ s.id = proc[1].req.subscription_id
                              /\ s.customer_id # proc[1].actor
                              /\ s.status = SubscriptionStatusActive

\* C14: when the insert of the success notification fails in a VerifyPayment
\* call on the initial-order branch, the call still returns success, the
\* order is approved and its payment is success under the gateway payment
\* id; no notification is stored.
C14_NotificationFailureDoesNotAbort ==
  [][(/\ proc[1].pc = "vp_commit" /\ proc'[1].pc = "done"
      /\ proc[1].loc.paymentType = "initial"
      /\ proc'[1].loc.fault = "notification")
     => (/\ proc'[1].result = OK
         /\ Reconciled(proc'[1], orders', payments')
         /\ notifications' = notifications)]_vars

C14_Witness ==
  /\ proc[1].op = "VerifyPayment" /\ proc[1].pc = "done"
  /\ proc[1].loc.fault = "notification"
  /\ proc[1].result = OK
  /\ notifications = <<>>
  /\ \E o \in orders : /\ o.id = proc[1].req.aquahome_order_id
                       /\ o.status = OrderStatusApproved
  /\ \E x \in payments : /\ x.order_id = proc[1].req.aquahome_order_id
                         /\ x.status = PaymentStatusSuccess
                         /\ x.transaction_id = proc[1].req.payment_id

\* the step in which a call of process 1 to one of the handlers ops returns
Returns(ops) ==
  /\ proc'[1].op \in ops
  /\ proc'[1].pc = "done"
  /\ \/ calls' = calls + 1
     \/ proc[1].pc \notin {"idle", "done"}

NotificationFaults == {"notification", "owner_notification", "agent_notification"}

\* C15: in CreateServiceRequest, UpdateServiceRequest, CancelServiceRequest
\* and SubmitServiceFeedback a failed notification insert makes the call
\* fail, and a call that fails leaves the service requests and the
\* notifications exactly as they were before it.
C15_RequestAndNotificationsTogether ==
  [][Returns({"CreateServiceRequest", "UpdateServiceRequest",
              "CancelServiceRequest", "SubmitServiceFeedback"})
     => (/\ proc'[1].loc.fault \in NotificationFaults
            => proc'[1].result.status = "InternalServerError"
         /\ proc'[1].result.status \notin {"OK", "Created"}
            => (/\ serviceRequests' = serviceRequests
                /\ notifications' = notifications))]_vars

C15_Witness ==
  /\ proc[1].op = "UpdateServiceRequest" /\ proc[1].pc = "done"
  /\ proc[1].loc.fault = "notification"
  /\ proc[1].result = Response("InternalServerError", "Failed to create notification")
  /\ proc[1].req.status = ServiceStatusScheduled
  /\ \E r \in serviceRequests : r.id = proc[1].req.id /\ r.status = ServiceStatusPending
  /\ Len(notifications) = 2

\* C16: CancelServiceRequest sets a request to cancelled only when it
\* belongs to the caller and is pending, assigned or scheduled; a call on a
\* request of the caller that is completed or cancelled is rejected at once
\* and changes no table.
C16_CancelOnlyFromOpenStates ==
  /\ [][Returns({"CancelServiceRequest"})
        => \A r \in serviceRequests :
             \E n \in serviceRequests' :
               /\ n.id = r.id
               /\ n.status # r.status
                  => (/\ n.status = ServiceStatusCancelled
                      /\ r.customer_id = proc'[1].actor
                      /\ r.status \in {ServiceStatusPending, ServiceStatusAssigned,
                                       ServiceStatusScheduled})]_vars
  /\ [][(/\ Called("CancelServiceRequest")
         /\ \E r \in serviceRequests :
               /\ r.id = proc'[1].req.id
               /\ r.customer_id = proc'[1].actor
               /\ r.status \in {ServiceStatusCompleted, ServiceStatusCancelled})
        => (/\ proc'[1].pc = "done"
            /\ proc'[1].result.status = "BadRequest"
            /\ UNCHANGED tables)]_vars

\* C17: a step gives a service request a new agent only if that agent is a
\* user with role service_agent and, when the caller is a franchise owner,
\* belongs to a franchise the caller owns.
C17_AssignedAgentIsValid ==
  [][\A r \in serviceRequests : \A n \in serviceRequests' :
       (n.id = r.id /\ n.service_agent_id # r.service_agent_id /\ n.service_agent_id # 0)
       => (/\ n.service_agent_id \in DOMAIN Users
           /\ Users[n.service_agent_id].role = RoleServiceAgent
           /\ Users[proc'[1].actor].role = RoleFranchiseOwner
              => (/\ Users[n.service_agent_id].franchise_id \in DOMAIN Franchises
                  /\ Franchises[Users[n.service_agent_id].franchise_id].owner_id
                       = proc'[1].actor))]_vars

\* C18: a step that gives a pending service request a new agent leaves it
\* assigned, and no stored service request is pending and has an agent.
C18_AssignedIsNotPending ==
  /\ [][\A r \in serviceRequests : \A n \in serviceRequests' :
          (/\ n.id = r.id
           /\ n.service_agent_id # r.service_agent_id /\ n.service_agent_id # 0
           /\ r.status = ServiceStatusPending)
          => n.status = ServiceStatusAssigned]_vars
  /\ [](\A r \in serviceRequests :
          r.service_agent_id # 0 => r.status # ServiceStatusPending)

ServiceStatuses ==
  {ServiceStatusPending, ServiceStatusAssigned, ServiceStatusScheduled,
   ServiceStatusCompleted, ServiceStatusCancelled}

\* the status graph: pending -> assigned -> scheduled -> completed, and
\* cancelled from pending, assigned and scheduled
ServiceStatusEdges ==
  {<<ServiceStatusPending, ServiceStatusAssigned>>,
   <<ServiceStatusAssigned, ServiceStatusScheduled>>,
   <<ServiceStatusScheduled, ServiceStatusCompleted>>,
   <<ServiceStatusPending, ServiceStatusCancelled>>,
   <<ServiceStatusAssigned, ServiceStatusCancelled>>,
   <<ServiceStatusScheduled, ServiceStatusCancelled>>}

\* C19: the status of a stored service request is one of the five statuses
\* and every step that changes it follows an edge of the status graph.
C19_StatusFollowsGraph ==
  /\ [](\A r \in serviceRequests : r.status \in ServiceStatuses)
  /\ [][\A r \in serviceRequests : \A n \in serviceRequests' :
          (n.id = r.id /\ n.status # r.status)
          => <<r.status, n.status>> \in ServiceStatusEdges]_vars

\* C20: a step of UpdateServiceRequest or AssignServiceRequestToAgent changes
\* a service request only when the caller is an admin, a franchise owner who
\* owns the franchise of the request's subscription, a service agent the
\* request is assigned to, or the customer of the request; every other call
\* returns PermissionDenied (403) and changes no table.
C20_MutationOnlyInScope ==
  [][Returns({"UpdateServiceRequest", "AssignServiceRequestToAgent"})
     => LET actor == proc'[1].actor
            role == Users[actor].role
            InScope(r) ==
              \/ role = RoleAdmin
              \/ /\ role = RoleFranchiseOwner
                 /\ \E s \in subscriptions :
                      /\ s.id = r.subscription_id
                      /\ s.franchise_id \in DOMAIN Franchises
                      /\ Franchises[s.franchise_id].owner_id = actor
              \/ role = RoleServiceAgent /\ r.service_agent_id = actor
              \/ role = RoleCustomer /\ r.customer_id = actor
        IN /\ \A r \in serviceRequests :
                r \notin serviceRequests' => InScope(r)
           /\ (\E r \in serviceRequests : r.id = proc'[1].req.id /\ ~InScope(r))
              => (/\ proc'[1].result.status = "Forbidden"
                  /\ UNCHANGED tables)]_vars

\* a step in which process p ends a call of handler op (with several
\* processes, a call that repeats the process's last call with the same
\* response leaves proc[p] as it was and is not told apart from a step of
\* another process)
ReturnsIn(p, op) ==
  /\ proc'[p].op = op
  /\ proc'[p].pc = "done"
  /\ proc'[p] # proc[p]

\* C21: a step changes the rating or the feedback of a service request only
\* as the write of a SubmitServiceFeedback call whose actor is the customer
\* of the request, on a request that is completed at that step, with a
\* rating in 1..5; a SubmitServiceFeedback call that is rejected changes no
\* table; every stored rating is absent (0) or in 1..5.
C21_FeedbackOnlyOnOwnCompleted ==
  /\ [][\A r \in serviceRequests : \A n \in serviceRequests' :
          (n.id = r.id /\ (n.rating # r.rating \/ n.feedback # r.feedback))
          => \E p \in Procs :
               /\ ReturnsIn(p, "SubmitServiceFeedback")
               /\ proc'[p].result.status = "OK"
               /\ r.customer_id = proc'[p].actor
               /\ r.status = ServiceStatusCompleted
               /\ n.rating = proc'[p].req.rating
               /\ n.rating \in 1..5]_vars
  /\ [][\A p \in Procs :
          (ReturnsIn(p, "SubmitServiceFeedback") /\ proc'[p].result.status # "OK")
          => UNCHANGED tables]_vars
  /\ [](\A r \in serviceRequests : r.rating \in 0..5)

\* C22: a CreateServiceRequest call answers Created only when the
\* subscription it names belongs to the actor and is active; it then adds
\* exactly one service request, pending and without agent, for that actor and
\* subscription, one notification for the customer and, when the
\* subscription's franchise has an owner, one for that owner after it; every
\* other call adds no service request and no notification.
C22_CreatesForOwnActiveSubscription ==
  [][Returns({"CreateServiceRequest"})
     => LET actor == proc'[1].actor
            req == proc'[1].req
            own == {s \in subscriptions : /\ s.id = req.subscription_id
                                          /\ s.customer_id = actor
                                          /\ s.status = SubscriptionStatusActive}
            owners == {Franchises[s.franchise_id].owner_id :
                         s \in {t \in own : t.franchise_id \in DOMAIN Franchises}}
                      \ {0}
            created == serviceRequests' \ serviceRequests
            n == Len(notifications)
        IN IF proc'[1].result.status = "Created"
           THEN /\ own # {}
                /\ serviceRequests \subseteq serviceRequests'
                /\ Cardinality(created) = 1
                /\ \A r \in created : /\ r.customer_id = actor
                                      /\ r.subscription_id = req.subscription_id
                                      /\ r.status = ServiceStatusPending
                                      /\ r.service_agent_id = 0
                                      /\ r.id \notin {x.id : x \in serviceRequests}
                /\ Len(notifications') = n + 1 + Cardinality(owners)
                /\ SubSeq(notifications', 1, n) = notifications
                /\ notifications'[n + 1].user_id = actor
                /\ \A o \in owners : notifications'[n + 2].user_id = o
                /\ \A i \in (n + 1)..Len(notifications') :
                     /\ notifications'[i].related_id \in {r.id : r \in created}
                     /\ notifications'[i].related_type = "service_request"
           ELSE UNCHANGED tables]_vars

\* a request was created for a subscription without franchise, with the
\* customer's notification only, and one for a subscription whose franchise
\* has an owner, with two notifications
C22_Witness ==
  /\ proc[1].op = "CreateServiceRequest"
  /\ proc[1].result.status = "Created"
  /\ \E r \in serviceRequests :
       /\ r.subscription_id = 4
       /\ Cardinality({i \in DOMAIN notifications :
                         notifications[i].related_id = r.id}) = 1
  /\ \E r \in serviceRequests :
       /\ r.subscription_id = 1
       /\ \E i \in DOMAIN notifications : /\ notifications[i].related_id = r.id
                                          /\ notifications[i].user_id = 4

\* C23: a GenerateMonthlyPayment call on an active subscription of the actor
\* whose store accesses all succeed answers OK and, if a pending monthly
\* payment of the subscription exists, writes the new gateway handle into that
\* row and leaves the number of payments as it was; otherwise it adds exactly
\* one payment: pending, monthly, of the subscription, carrying the new
\* handle and the invoice number INV-M-<YYYYMMDD>-<subscription id>.
C23_ReusesOrCreatesPendingMonthly ==
  [][(/\ Returns({"GenerateMonthlyPayment"})
      /\ proc'[1].loc.fault = "none"
      /\ \E s \in subscriptions : /\ s.id = proc'[1].req.subscription_id
                                  /\ s.customer_id = proc'[1].actor
                                  /\ s.status = SubscriptionStatusActive
      /\ Users[proc'[1].actor].role = RoleCustomer)
     => LET id == proc'[1].req.subscription_id
            handle == GatewayOrderId(gateway' - 1)
            pending == {x \in payments : /\ x.subscription_id = id
                                         /\ x.payment_type = "monthly"
                                         /\ x.status = PaymentStatusPending}
        IN /\ proc'[1].result.status = "OK"
           /\ proc[1].pc = "gmp_write"
           /\ IF pending # {}
              THEN /\ Cardinality(payments') = Cardinality(payments)
                   /\ \E x \in pending :
                        /\ x.transaction_id # handle
                        /\ payments' =
                             (payments \ {x})
                             \cup {[x EXCEPT !.transaction_id = handle,
                                             !.payment_details.razorpay_order_id =
                                               handle]}
              ELSE \E n \in payments' :
                     /\ payments' \ payments = {n}
                     /\ payments \subseteq payments'
                     /\ n.id \notin {x.id : x \in payments}
                     /\ n.subscription_id = id
                     /\ n.customer_id = proc'[1].actor
                     /\ n.payment_type = "monthly"
                     /\ n.status = PaymentStatusPending
                     /\ n.transaction_id = handle
                     /\ n.invoice_number
                          \in {"INV-M-" \o d \o "-" \o ToString(id) : d \in Dates}]_vars

\* GenerateMonthlyPayment has answered OK and the one monthly payment is
\* pending, carries its invoice number and the handle issued last
C23_Witness ==
  /\ proc[1].op = "GenerateMonthlyPayment" /\ proc[1].pc = "done"
  /\ proc[1].result.status = "OK" /\ proc[1].loc.fault = "none"
  /\ \E x \in payments : /\ x.subscription_id = 1
                         /\ x.invoice_number = "INV-M-20261201-1"
                         /\ x.status = PaymentStatusPending
                         /\ x.transaction_id = GatewayOrderId(gateway - 1)
                         /\ x.transaction_id # GatewayOrderId(1)
  /\ Cardinality({x \in payments : x.payment_type = "monthly"}) = 1

\* C24: the step in which a VerifyPayment call for a subscription that has
\* a pending monthly payment returns success sets that payment to success,
\* with the gateway payment id as its transaction id, and appends the success
\* notification.
C24_MonthlyPaymentMarkedSuccess ==
  [][(/\ VerifyPaymentReturns
      /\ proc'[1].result = OK
      /\ proc'[1].req.subscription_id # 0
      /\ \E x \in payments : /\ x.subscription_id = proc'[1].req.subscription_id
                             /\ x.payment_type = "monthly"
                             /\ x.status = PaymentStatusPending)
     => (/\ \E x \in payments : \E n \in payments' :
              /\ x.subscription_id = proc'[1].req.subscription_id
              /\ x.payment_type = "monthly"
              /\ x.status = PaymentStatusPending
              /\ n.id = x.id
              /\ n.status = PaymentStatusSuccess
              /\ n.transaction_id = proc'[1].req.payment_id
         /\ Len(notifications') = Len(notifications) + 1
         /\ notifications'[Len(notifications')].title = "Payment Successful")]_vars

\* C25: whenever no GenerateMonthlyPayment call is between its lookup and its
\* write, every subscription has at most one pending monthly payment, however
\* the calls that ran were interleaved.
C25_OnePendingMonthlyAfterRace ==
  (\A p \in Procs : proc[p].pc # "gmp_write")
  => \A s \in subscriptions :
       Cardinality({x \in payments : /\ x.subscription_id = s.id
                                     /\ x.payment_type = "monthly"
                                     /\ x.status = PaymentStatusPending}) <= 1

\* C26: the write of a customer's UpdateServiceRequest call changes the
\* status of the request only when the request is pending at that step, in
\* every interleaving with the calls of other actors.
C26_CustomerCancelsOnlyPendingAtWrite ==
  [][\A p \in Procs :
       (/\ proc[p].op = "UpdateServiceRequest"
        /\ proc[p].pc = "update_write"
        /\ proc'[p].pc = "done"
        /\ Users[proc[p].actor].role = RoleCustomer)
       => \A r \in serviceRequests : \A n \in serviceRequests' :
            (n.id = r.id /\ n.status # r.status)
            => r.status = ServiceStatusPending]_vars

\* C27: a VerifyPayment call that fails a gate is rejected in its first step
\* with the response of the earliest failing gate in the order role,
\* non-empty identifiers, signature, idempotency, and changes no table: a
\* non-customer gets PermissionDenied whatever else is wrong, and an invalid
\* signature on an already processed payment id gets InvalidSignature, not
\* AlreadyProcessed.
C27_EarliestGateReported ==
  [][Called("VerifyPayment")
     => LET pr == proc'[1]
            denied == Users[pr.actor].role # RoleCustomer
            missing == \/ pr.req.payment_id = NoId
                       \/ pr.req.order_id = NoId
                       \/ pr.req.signature = NoSignature
            forged == pr.req.signature #
                        Hmac(RazorpaySecret, <<pr.req.order_id, pr.req.payment_id>>)
            processed == \E x \in payments :
                           /\ x.transaction_id = pr.req.payment_id
                           /\ x.status = PaymentStatusSuccess
            expected ==
              CASE denied -> <<"Forbidden", "Permission denied">>
                [] ~denied /\ missing ->
                     <<"BadRequest", "Missing required payment fields">>
                [] ~denied /\ ~missing /\ forged ->
                     <<"BadRequest", "Invalid payment signature">>
                [] OTHER -> <<"Conflict", "Payment already processed">>
        IN (denied \/ missing \/ forged \/ processed)
           => (/\ pr.pc = "done"
               /\ <<pr.result.status, pr.result.error>> = expected
               /\ UNCHANGED tables)]_vars

\* a call with a forged signature for a payment id that is already processed
\* has been answered InvalidSignature
C27_Witness ==
  /\ proc[1].op = "VerifyPayment" /\ proc[1].pc = "done"
  /\ proc[1].result.error = "Invalid payment signature"
  /\ proc[1].req.signature.key = ForgedSecret
  /\ \E x \in payments : /\ x.transaction_id = proc[1].req.payment_id
                         /\ x.status = PaymentStatusSuccess

\* C28: when, on the initial-order branch of VerifyPayment, the payment
\* update has taken effect inside the transaction and the order update then
\* fails or affects no row, the call returns a server error and every table
\* is as before the call: the payment is still pending, the order is not
\* approved and no notification is added.
C28_FailedOrderUpdateRollsBack ==
  [][(/\ proc[1].pc = "vp_commit" /\ proc'[1].pc = "done"
      /\ proc[1].loc.paymentType = "initial"
      /\ \E x \in payments : x.id = proc[1].loc.pending_id
      /\ \/ proc'[1].loc.fault = "order_update"
         \/ /\ proc'[1].loc.fault # "payment_update"
            /\ \A o \in orders : o.id # proc[1].loc.orderID)
     => (/\ proc'[1].result.status = "InternalServerError"
         /\ proc'[1].result.error \in {"Error updating order status",
                                       "Order record not updated"}
         /\ \E x \in payments' : /\ x.id = proc[1].loc.pending_id
                                 /\ x.status = PaymentStatusPending
                                 /\ x.transaction_id # proc[1].req.payment_id
         /\ \A o \in orders' :
              o.id = proc[1].loc.orderID => o.status = OrderStatusPending
         /\ orders' = orders /\ payments' = payments
         /\ notifications' = notifications)]_vars

\* the order update of a call has failed: server error, the order and its
\* payment are pending, nothing was notified
C28_Witness ==
  /\ proc[1].op = "VerifyPayment" /\ proc[1].pc = "done"
  /\ proc[1].loc.fault = "order_update"
  /\ proc[1].result = Response("InternalServerError", "Error updating order status")
  /\ \E o \in orders : /\ o.id = proc[1].req.aquahome_order_id
                       /\ o.status = OrderStatusPending
                       /\ \E x \in payments : /\ x.order_id = o.id
                                              /\ x.status = PaymentStatusPending
  /\ notifications = <<>>

\* C29: a call of GeneratePaymentOrder, VerifyPayment or
\* GenerateMonthlyPayment in which the gateway call or a store access failed
\* (other than the insert of VerifyPayment's notification) returns a server
\* error; in particular GenerateMonthlyPayment does so when the create or the
\* save of the pending payment fails.
C29_FailedWriteIsServerError ==
  [][(/\ Returns({"GeneratePaymentOrder", "VerifyPayment", "GenerateMonthlyPayment"})
      /\ proc'[1].loc.fault \notin {"none", "notification"}
      /\ proc'[1].loc.fault \in {"payment_update", "order_update"}
         => proc[1].loc.paymentType = "initial")
     => proc'[1].result.status = "InternalServerError"]_vars

\* C30: a SubmitServiceFeedback call that succeeds leaves the request with
\* the rating and the feedback of that call, whatever rating and feedback it
\* had before, changes nothing else of the request (its status stays
\* completed) and adds or removes no service request.
C30_FeedbackOverwrites ==
  [][(Returns({"SubmitServiceFeedback"}) /\ proc'[1].result = OK)
     => \E r \in serviceRequests :
          /\ r.id = proc'[1].req.id
          /\ r.status = ServiceStatusCompleted
          /\ serviceRequests' =
               (serviceRequests \ {r})
               \cup {[r EXCEPT !.rating = proc'[1].req.rating,
                               !.feedback = proc'[1].req.feedback]}
          /\ Cardinality(serviceRequests') = Cardinality(serviceRequests)]_vars

\* a first feedback of five stars is stored and a second call, of one star,
\* has passed the read of the completed request and is about to write
C30_Witness ==
  /\ proc[1].op = "SubmitServiceFeedback" /\ proc[1].pc = "feedback_write"
  /\ proc[1].req.rating = 1 /\ proc[1].req.feedback = "late"
  /\ \E r \in serviceRequests : /\ r.id = proc[1].req.id
                                /\ r.rating = 5 /\ r.feedback = "good"
                                /\ r.status = ServiceStatusCompleted
  /\ Cardinality(serviceRequests) = 1

\* C31: a VerifyPayment, GenerateMonthlyPayment or CancelServiceRequest call
\* that names an order, a subscription or a service request which is not the
\* caller's gets one and the same NotFound response and changes no table,
\* whether the row is absent or belongs to another customer: the response
\* does not depend on the rows of others.
C31_AbsentAndForeignAlike ==
  /\ [][(/\ VerifyPaymentLoads
         /\ proc[1].req.subscription_id # 0
         /\ \A s \in subscriptions :
              ~(s.id = proc[1].req.subscription_id /\ s.customer_id = proc[1].actor))
        => (/\ proc'[1].pc = "done"
            /\ proc'[1].result = Response("NotFound", "Subscription not found")
            /\ UNCHANGED tables)]_vars
  /\ [][(/\ VerifyPaymentLoads
         /\ proc[1].req.subscription_id = 0
         /\ proc[1].req.aquahome_order_id > 0
         /\ \A o \in orders :
              ~(o.id = proc[1].req.aquahome_order_id /\ o.customer_id = proc[1].actor))
        => (/\ proc'[1].pc = "done"
            /\ proc'[1].result = Response("NotFound", "Order not found")
            /\ UNCHANGED tables)]_vars
  /\ [][(/\ Called("GenerateMonthlyPayment")
         /\ Users[proc'[1].actor].role = RoleCustomer
         /\ \A s \in subscriptions :
              ~(s.id = proc'[1].req.subscription_id /\ s.customer_id = proc'[1].actor))
        => (/\ proc'[1].pc = "done"
            /\ proc'[1].result =
                 Response("NotFound", "Subscription not found or doesn't belong to you")
            /\ UNCHANGED <<tables, gateway>>)]_vars
  /\ [][(/\ Called("CancelServiceRequest")
         /\ \A r \in serviceRequests :
              ~(r.id = proc'[1].req.id /\ r.customer_id = proc'[1].actor))
        => (/\ proc'[1].pc = "done"
            /\ proc'[1].result =
                 Response("NotFound", "Service request not found or doesn't belong to you")
            /\ UNCHANGED tables)]_vars

\* customer 2 was answered NotFound for service request 1, which exists and
\* belongs to customer 1, as customer 2 is answered when it does not exist
C31_Witness ==
  /\ proc[1].op = "CancelServiceRequest" /\ proc[1].pc = "done"
  /\ proc[1].actor = 2
  /\ proc[1].result.status = "NotFound"
  /\ \E r \in serviceRequests : r.id = proc[1].req.id /\ r.customer_id = 1

\* C32: no step removes an order, and a step changes a stored order only as
\* the last step of a VerifyPayment call that names this order, and then
\* only its status, from pending to approved; so an approved order stays
\* approved through every later call of any handler.
C32_OrderOnlyApprovedByVerifyPayment ==
  [][\A o \in orders :
       \E n \in orders' :
         /\ n.id = o.id
         /\ n # o => (/\ VerifyPaymentReturns
                      /\ proc[1].pc = "vp_commit"
                      /\ proc'[1].req.aquahome_order_id = o.id
                      /\ o.status = OrderStatusPending
                      /\ n = [o EXCEPT !.status = OrderStatusApproved])]_vars

\* an order was approved, a second order is still pending, and calls of
\* other handlers have followed
C32_Witness ==
  /\ \E o \in orders : o.status = OrderStatusApproved
  /\ \E o \in orders : o.status = OrderStatusPending
  /\ proc[1].op \in {"CancelServiceRequest", "UpdateServiceRequest",
                     "GenerateMonthlyPayment"}
  /\ proc[1].pc = "done"

\* C33: every call that has returned was given a response by its handler,
\* and the transaction the handler opened is committed or rolled back by
\* then: no returned call leaves its transaction open
C33_EveryExitSettlesTransaction ==
  \A p \in DOMAIN proc :
    proc[p].pc = "done" =>
      /\ proc[p].tx = "settled"
      /\ proc[p].result.detail # "empty body"

\* C34: whenever a step changes the stored status or the assigned agent of a
\* service request, the same step adds at least one notification addressed
\* to the request's customer or to its old or new agent
C34_ChangeOfRequestIsNotified ==
  [][\A r \in serviceRequests : \A n \in serviceRequests' :
       /\ n.id = r.id
       /\ n.status # r.status \/ n.service_agent_id # r.service_agent_id
       => /\ Len(notifications') > Len(notifications)
          /\ \E i \in (Len(notifications) + 1)..Len(notifications') :
               notifications'[i].user_id
                 \in {r.customer_id, r.service_agent_id, n.service_agent_id}]_vars

\* C35: a call of GetFranchiseDashboard leaves the user, order, subscription
\* and service-request records as they were (the franchise records are
\* never written by any handler)
C35_DashboardIsReadOnly ==
  [][proc'[1].op = "GetFranchiseDashboard" /\ calls' = calls + 1
     => UNCHANGED <<users, orders, subscriptions, serviceRequests>>]_vars

\* C36: a step takes an order from pending to approved only as the commit of
\* a VerifyPayment call whose gateway order id is the handle stored, as
\* transaction_id, on that order's pending initial payment
C36_ApprovedByOwnGatewayHandle ==
  [][\A o \in orders : \A n \in orders' :
       /\ n.id = o.id
       /\ o.status = OrderStatusPending
       /\ n.status = OrderStatusApproved
       => /\ proc[1].op = "VerifyPayment" /\ proc[1].pc = "vp_commit"
          /\ proc[1].req.aquahome_order_id = o.id
          /\ \E x \in PendingInitial(payments, o.id) :
               x.transaction_id = proc[1].req.order_id]_vars

\* C37: in every state of the store an order is approved exactly when its
\* initial payment is marked success, so the payment update and the order
\* update of VerifyPayment are never seen one without the other
C37_ApprovedIffInitialSuccess ==
  \A o \in orders :
    /\ \E x \in payments : x.order_id = o.id /\ x.payment_type = "initial"
    /\ \A x \in payments :
         x.order_id = o.id /\ x.payment_type = "initial"
         => (o.status = OrderStatusApproved <=> x.status = PaymentStatusSuccess)

\* one order is approved with its payment marked success while another is
\* still pending, after VerifyPayment calls that committed and that failed
C37_Witness ==
  /\ \E o \in orders : \E x \in payments :
       /\ x.order_id = o.id /\ x.payment_type = "initial"
       /\ o.status = OrderStatusApproved /\ x.status = PaymentStatusSuccess
  /\ \E o \in orders : o.status = OrderStatusPending
  /\ proc[1].op = "VerifyPayment" /\ proc[1].pc = "done"
  /\ proc[1].loc.fault \in {"payment_update", "order_update", "commit"}
  /\ proc[1].result.status = "InternalServerError"

\* C38: when the write of an UpdateServiceRequest call adds a notification
\* about an agent assignment, the call has stored the payload's agent_id as
\* service_agent_id of that request, and when it adds a notification about a
\* schedule, the call has stored the payload's scheduled_date as its
\* scheduled_time
C38_NotificationsFollowAppliedUpdates ==
  [][proc[1].pc = "update_write" =>
       \A i \in (Len(notifications) + 1)..Len(notifications') :
         LET note == notifications'[i]
             req == proc[1].req
         IN /\ note.title \in {"Service Agent Assigned", "New Service Assignment"}
               => \E r \in serviceRequests' :
                    r.id = note.related_id /\ r.service_agent_id = req.agent_id
            /\ note.title = "Service Visit Scheduled"
               => \E r \in serviceRequests' :
                    r.id = note.related_id /\ r.scheduled_time = req.scheduled_date]_vars

\* C39: the status named in the "Service Request Updated" notification that
\* the write of an UpdateServiceRequest call adds is the status the request
\* has in the store after that write
C39_NotifiedStatusIsStoredStatus ==
  [][proc[1].pc = "update_write" =>
       \A i \in (Len(notifications) + 1)..Len(notifications') :
         notifications'[i].title = "Service Request Updated"
         => \E r \in serviceRequests' :
              /\ r.id = notifications'[i].related_id
              /\ r.status = notifications'[i].message[2]]_vars

\* C40: the save of an AssignServiceRequestToAgent call leaves the status of
\* every service request as the store holds it at that moment, whatever
\* another call has committed since the assignment read the request
C40_AssignKeepsCommittedStatus ==
  [][\A p \in DOMAIN proc :
       proc[p].pc = "assign_save" /\ proc'[p].pc = "done"
       => \A r \in serviceRequests : \E n \in serviceRequests' :
            n.id = r.id /\ n.status = r.status]_vars

====
